---- MODULE Spec2Model ----
(***************************************************************************)
(* Model of the project-gantt backend: the RBAC decorators of              *)
(* app/utils/rbac.py, the project / share / auth routes they guard, and    *)
(* the invite life cycle of app/services/invite_service.py.                *)
(*                                                                         *)
(* The data store is the only shared state.  A request is one atomic step  *)
(* (decorator, then handler, then the handler's commit); its response is   *)
(* kept in resp until the client reads it.  Invite acceptance is the one   *)
(* operation modelled step by step, because two acceptances interleave.    *)
(***************************************************************************)
EXTENDS Integers, Sequences, FiniteSets, TLC

NULL == "NULL"

(***************************************************************************)
(* Bounds of the model.                                                    *)
(***************************************************************************)
\* number of service-level mutations (role change, deactivation, project
\* writes) explored from the seeded database
MaxOps == 2

(***************************************************************************)
(* Role model: rbac.py, Role / ROLE_HIERARCHY / Permission /               *)
(* ROLE_PERMISSIONS.                                                       *)
(***************************************************************************)
ADMIN == "admin"
DEPARTMENT_ADMIN == "department_admin"
MANAGER == "manager"
MEMBER == "member"
VIEWER == "viewer"

Role == {ADMIN, DEPARTMENT_ADMIN, MANAGER, MEMBER, VIEWER}

\* what the users.role column can hold: a role, NULL, or any other string
\* (UserService.update stores the sanitized string as is)
RoleValues == Role \cup {NULL, "guest"}

ROLE_HIERARCHY ==
    [r \in Role |->
        CASE r = VIEWER -> 0
          [] r = MEMBER -> 1
          [] r = MANAGER -> 2
          [] r = DEPARTMENT_ADMIN -> 3
          [] r = ADMIN -> 4]

Permission ==
    {"view_users", "manage_users",
     "view_projects", "create_projects", "edit_projects", "delete_projects",
     "manage_project_members",
     "view_tasks", "create_tasks", "edit_tasks", "delete_tasks", "assign_tasks",
     "view_team", "manage_team",
     "manage_department_members", "manage_department_projects",
     "manage_departments", "manage_roles", "system_settings"}

ROLE_PERMISSIONS ==
    [r \in Role |->
        CASE r = VIEWER ->
                {"view_users", "view_projects", "view_tasks", "view_team"}
          [] r = MEMBER ->
                {"view_users", "view_projects", "view_tasks", "view_team",
                 "create_tasks", "edit_tasks"}
          [] r = MANAGER ->
                {"view_users", "view_projects", "create_projects", "edit_projects",
                 "manage_project_members", "view_tasks", "create_tasks",
                 "edit_tasks", "delete_tasks", "assign_tasks", "view_team",
                 "manage_team"}
          [] r = DEPARTMENT_ADMIN ->
                {"view_users", "view_projects", "create_projects", "edit_projects",
                 "manage_project_members", "view_tasks", "create_tasks",
                 "edit_tasks", "delete_tasks", "assign_tasks", "view_team",
                 "manage_team", "manage_department_members",
                 "manage_department_projects"}
          [] r = ADMIN ->
                {"view_users", "manage_users", "view_projects", "create_projects",
                 "edit_projects", "delete_projects", "manage_project_members",
                 "view_tasks", "create_tasks", "edit_tasks", "delete_tasks",
                 "assign_tasks", "view_team", "manage_team", "manage_departments",
                 "manage_roles", "system_settings"}]

\* ROLE_HIERARCHY.get(role, default)
RoleLevel(role, default) ==
    IF role \in Role THEN ROLE_HIERARCHY[role] ELSE default

\* a has_role that asks for a strictly higher level
has_role_Strict(user_role, required_role) ==
    RoleLevel(user_role, 0) > RoleLevel(required_role, 999)

has_role(user_role, required_role) ==
    RoleLevel(user_role, 0) >= RoleLevel(required_role, 999)

\* a has_permission inferred from rank: what a manager may do, every higher
\* role may do
has_permission_ByRank(user_role, permission) ==
    \E r \in Role :
        /\ RoleLevel(user_role, 0) >= ROLE_HIERARCHY[r]
        /\ permission \in ROLE_PERMISSIONS[r]

has_permission(user_role, permission) ==
    IF user_role \in Role THEN permission \in ROLE_PERMISSIONS[user_role] ELSE FALSE

(***************************************************************************)
(* The seeded database (tests/test_security.py, db_setup, reduced to the   *)
(* relationships the access rules read).                                   *)
(***************************************************************************)
Users == {"u1", "u2", "u3"}
Departments == {"d1", "d2"}
TeamMembers == {"tm1", "tm2"}
ProjectIds == {"p1", "p2"}
TaskIds == {"t1", "t2"}

\* ids a route may carry that name no row
MissingProject == "p9"
MissingTask == "t9"
MissingMember == "tm9"

VARIABLES
    users,          \* users table: id -> [role, department_id, is_active]
    team_members,   \* team_members table: id -> [user_id]
    projects,       \* projects table: id -> [owner_id, team_members, name]
    tasks,          \* tasks table: id -> [project_id, assignee_id]
    share_links,    \* share_links table: set of [project_id, created_by]
    session,        \* the user the client's JWT was issued to, or NULL
    ops,            \* number of mutations done so far
    resp            \* the response of the request just handled, or NoResp

rbacVars == <<users, team_members, projects, tasks, share_links, session, ops, resp>>

VARIABLES
    invites,          \* invites table: id -> [email, password, created_by,
                      \*                       expires_at, used_at, revoked_at]
    accounts,         \* users table as the invite flow sees it: rows [id, email]
    user_settings,    \* user_settings table: the user ids that have a row
    member_profiles,  \* team_members table as the invite flow sees it:
                      \* rows [user_id, email]
    now,              \* datetime.utcnow()
    isolation,        \* transaction isolation of the configured database
    acc,              \* the accept_invite request of each worker
    validated         \* the last answer of the validate endpoint

inviteVars ==
    <<invites, accounts, user_settings, member_profiles, now, isolation, acc,
      validated>>

VARIABLES
    tcall,            \* the last call of a task or project service operation
    insights,         \* the InsightsService.generate calls made since the last
                      \* write: [first, last, calls, today]
    departments,      \* departments table: id -> [admin_id]
    token_blacklist   \* the TokenBlacklist singleton and its Redis keys, with
                      \* the last is_blacklisted call

taskVars == <<tcall, insights, departments, token_blacklist>>

(***************************************************************************)
(* Responses.  A decorator either answers itself (the handler is not       *)
(* invoked) or stores the user in g.current_user and calls the handler.    *)
(* lookups lists the relationship lookups (is_project_owner, ...) made.    *)
(***************************************************************************)
Deny(status, msg, lookups) ==
    [status |-> status, msg |-> msg, invoked |-> FALSE, g |-> NULL,
     lookups |-> lookups]

\* g.current_user = user; return f(*args, **kwargs)
Allow(user_id, lookups) ==
    [status |-> 200, msg |-> "ok", invoked |-> TRUE, g |-> user_id,
     lookups |-> lookups]

NoParams == [target |-> NULL, f1 |-> FALSE, f2 |-> FALSE, f3 |-> FALSE, arg |-> NULL]

NoResp ==
    [endpoint |-> NULL, subject |-> NULL, subj_active |-> FALSE, subj_role |-> NULL,
     params |-> NoParams, status |-> 0, msg |-> NULL, invoked |-> FALSE,
     g |-> NULL, lookups |-> <<>>, changed |-> FALSE]

\* user.role or Role.MEMBER.value
RoleOr(user) == IF user.role = NULL THEN MEMBER ELSE user.role

(***************************************************************************)
(* Relationship lookups: rbac.py, is_project_owner / is_project_member /   *)
(* is_task_assignee.                                                       *)
(***************************************************************************)
\* TeamMember.query.filter_by(user_id=user_id).first(); user_id is unique
TeamMemberOf(user_id) ==
    IF \E m \in DOMAIN team_members : team_members[m].user_id = user_id
    THEN CHOOSE m \in DOMAIN team_members : team_members[m].user_id = user_id
    ELSE NULL

is_project_owner(user_id, project_id) ==
    IF project_id \in DOMAIN projects
    THEN projects[project_id].owner_id = user_id
    ELSE FALSE

is_project_member(user_id, project_id) ==
    IF project_id \notin DOMAIN projects THEN FALSE
    ELSE IF TeamMemberOf(user_id) # NULL
         THEN TeamMemberOf(user_id) \in projects[project_id].team_members
         ELSE FALSE

is_task_assignee(user_id, task_id) ==
    IF task_id \notin DOMAIN tasks THEN FALSE
    ELSE IF TeamMemberOf(user_id) # NULL
         THEN tasks[task_id].assignee_id = TeamMemberOf(user_id)
         ELSE FALSE

(***************************************************************************)
(* The decorators of rbac.py.  user_id is the JWT identity.                *)
(***************************************************************************)
require_auth(user_id) ==
    IF user_id \notin DOMAIN users THEN Deny(404, "User not found", <<>>)
    ELSE IF ~users[user_id].is_active
         THEN Deny(403, "User account is deactivated", <<>>)
         ELSE Allow(user_id, <<>>)

require_role(required_role, user_id) ==
    IF user_id \notin DOMAIN users THEN Deny(404, "User not found", <<>>)
    ELSE IF ~users[user_id].is_active
         THEN Deny(403, "User account is deactivated", <<>>)
         ELSE IF ~has_role(RoleOr(users[user_id]), required_role)
              THEN Deny(403, "Insufficient permissions", <<>>)
              ELSE Allow(user_id, <<>>)

require_permission(permission, user_id) ==
    IF user_id \notin DOMAIN users THEN Deny(404, "User not found", <<>>)
    ELSE IF ~users[user_id].is_active
         THEN Deny(403, "User account is deactivated", <<>>)
         ELSE IF ~has_permission(RoleOr(users[user_id]), permission)
              THEN Deny(403, "Permission denied", <<>>)
              ELSE Allow(user_id, <<>>)

\* the lookups made when the owner test (if enabled) has failed
OwnerTried(allow_owner) == IF allow_owner THEN <<"is_project_owner">> ELSE <<>>

\* require_project_access with the project looked up before the is_active test
require_project_access_ExistenceFirst(allow_owner, allow_member, allow_manager, user_id, project_id) ==
    IF project_id = NULL THEN Deny(400, "Project ID required", <<>>)
    ELSE IF user_id \notin DOMAIN users THEN Deny(404, "User not found", <<>>)
    ELSE IF project_id \notin DOMAIN projects
         THEN Deny(404, "Project not found", <<>>)
    ELSE IF ~users[user_id].is_active
         THEN Deny(403, "User account is deactivated", <<>>)
    ELSE IF has_role(RoleOr(users[user_id]), ADMIN)
         THEN Allow(user_id, <<>>)
    ELSE IF allow_manager /\ has_role(RoleOr(users[user_id]), MANAGER)
         THEN Allow(user_id, <<>>)
    ELSE IF allow_owner /\ is_project_owner(user_id, project_id)
         THEN Allow(user_id, <<"is_project_owner">>)
    ELSE IF allow_member /\ is_project_member(user_id, project_id)
         THEN Allow(user_id, OwnerTried(allow_owner) \o <<"is_project_member">>)
    ELSE Deny(403, "Access denied to this project",
              OwnerTried(allow_owner)
                \o (IF allow_member THEN <<"is_project_member">> ELSE <<>>))

\* require_project_access with the manager test not conditioned on allow_manager
require_project_access_ManagerAlways(allow_owner, allow_member, allow_manager, user_id, project_id) ==
    IF project_id = NULL THEN Deny(400, "Project ID required", <<>>)
    ELSE IF user_id \notin DOMAIN users THEN Deny(404, "User not found", <<>>)
    ELSE IF ~users[user_id].is_active
         THEN Deny(403, "User account is deactivated", <<>>)
    ELSE IF project_id \notin DOMAIN projects
         THEN Deny(404, "Project not found", <<>>)
    ELSE IF has_role(RoleOr(users[user_id]), ADMIN)
         THEN Allow(user_id, <<>>)
    ELSE IF has_role(RoleOr(users[user_id]), MANAGER)
         THEN Allow(user_id, <<>>)
    ELSE IF allow_owner /\ is_project_owner(user_id, project_id)
         THEN Allow(user_id, <<"is_project_owner">>)
    ELSE IF allow_member /\ is_project_member(user_id, project_id)
         THEN Allow(user_id, OwnerTried(allow_owner) \o <<"is_project_member">>)
    ELSE Deny(403, "Access denied to this project",
              OwnerTried(allow_owner)
                \o (IF allow_member THEN <<"is_project_member">> ELSE <<>>))

require_project_access(allow_owner, allow_member, allow_manager, user_id, project_id) ==
    IF project_id = NULL THEN Deny(400, "Project ID required", <<>>)
    ELSE IF user_id \notin DOMAIN users THEN Deny(404, "User not found", <<>>)
    ELSE IF ~users[user_id].is_active
         THEN Deny(403, "User account is deactivated", <<>>)
    ELSE IF project_id \notin DOMAIN projects
         THEN Deny(404, "Project not found", <<>>)
    ELSE IF has_role(RoleOr(users[user_id]), ADMIN)
         THEN Allow(user_id, <<>>)
    ELSE IF allow_manager /\ has_role(RoleOr(users[user_id]), MANAGER)
         THEN Allow(user_id, <<>>)
    ELSE IF allow_owner /\ is_project_owner(user_id, project_id)
         THEN Allow(user_id, <<"is_project_owner">>)
    ELSE IF allow_member /\ is_project_member(user_id, project_id)
         THEN Allow(user_id, OwnerTried(allow_owner) \o <<"is_project_member">>)
    ELSE Deny(403, "Access denied to this project",
              OwnerTried(allow_owner)
                \o (IF allow_member THEN <<"is_project_member">> ELSE <<>>))

AssigneeTried(allow_assignee) == IF allow_assignee THEN <<"is_task_assignee">> ELSE <<>>

\* require_task_access whose project-member branch calls the handler without
\* storing the user in g.current_user
require_task_access_NoCurrentUser(allow_assignee, allow_project_member, user_id, task_id) ==
    IF task_id = NULL THEN Deny(400, "Task ID required", <<>>)
    ELSE IF user_id \notin DOMAIN users THEN Deny(404, "User not found", <<>>)
    ELSE IF ~users[user_id].is_active
         THEN Deny(403, "User account is deactivated", <<>>)
    ELSE IF task_id \notin DOMAIN tasks
         THEN Deny(404, "Task not found", <<>>)
    ELSE IF has_role(RoleOr(users[user_id]), MANAGER)
         THEN Allow(user_id, <<>>)
    ELSE IF allow_assignee /\ is_task_assignee(user_id, task_id)
         THEN Allow(user_id, <<"is_task_assignee">>)
    ELSE IF allow_project_member /\ is_project_member(user_id, tasks[task_id].project_id)
         THEN Allow(NULL, AssigneeTried(allow_assignee) \o <<"is_project_member">>)
    ELSE Deny(403, "Access denied to this task",
              AssigneeTried(allow_assignee)
                \o (IF allow_project_member THEN <<"is_project_member">> ELSE <<>>))

\* require_task_access with the task looked up before the is_active test
require_task_access_TaskFirst(allow_assignee, allow_project_member, user_id, task_id) ==
    IF task_id = NULL THEN Deny(400, "Task ID required", <<>>)
    ELSE IF user_id \notin DOMAIN users THEN Deny(404, "User not found", <<>>)
    ELSE IF task_id \notin DOMAIN tasks
         THEN Deny(404, "Task not found", <<>>)
    ELSE IF ~users[user_id].is_active
         THEN Deny(403, "User account is deactivated", <<>>)
    ELSE IF has_role(RoleOr(users[user_id]), MANAGER)
         THEN Allow(user_id, <<>>)
    ELSE IF allow_assignee /\ is_task_assignee(user_id, task_id)
         THEN Allow(user_id, <<"is_task_assignee">>)
    ELSE IF allow_project_member /\ is_project_member(user_id, tasks[task_id].project_id)
         THEN Allow(user_id, AssigneeTried(allow_assignee) \o <<"is_project_member">>)
    ELSE Deny(403, "Access denied to this task",
              AssigneeTried(allow_assignee)
                \o (IF allow_project_member THEN <<"is_project_member">> ELSE <<>>))

require_task_access(allow_assignee, allow_project_member, user_id, task_id) ==
    IF task_id = NULL THEN Deny(400, "Task ID required", <<>>)
    ELSE IF user_id \notin DOMAIN users THEN Deny(404, "User not found", <<>>)
    ELSE IF ~users[user_id].is_active
         THEN Deny(403, "User account is deactivated", <<>>)
    ELSE IF task_id \notin DOMAIN tasks
         THEN Deny(404, "Task not found", <<>>)
    ELSE IF has_role(RoleOr(users[user_id]), MANAGER)
         THEN Allow(user_id, <<>>)
    ELSE IF allow_assignee /\ is_task_assignee(user_id, task_id)
         THEN Allow(user_id, <<"is_task_assignee">>)
    ELSE IF allow_project_member /\ is_project_member(user_id, tasks[task_id].project_id)
         THEN Allow(user_id, AssigneeTried(allow_assignee) \o <<"is_project_member">>)
    ELSE Deny(403, "Access denied to this task",
              AssigneeTried(allow_assignee)
                \o (IF allow_project_member THEN <<"is_project_member">> ELSE <<>>))

require_self_or_admin(target_user_id, user_id) ==
    IF user_id \notin DOMAIN users THEN Deny(404, "User not found", <<>>)
    ELSE IF ~users[user_id].is_active
         THEN Deny(403, "User account is deactivated", <<>>)
    ELSE IF has_role(RoleOr(users[user_id]), ADMIN) \/ user_id = target_user_id
         THEN Allow(user_id, <<>>)
    ELSE Deny(403, "Access denied", <<>>)

require_department_access(allow_own_department, user_id, member_id) ==
    IF user_id \notin DOMAIN users THEN Deny(404, "User not found", <<>>)
    ELSE IF ~users[user_id].is_active
         THEN Deny(403, "User account is deactivated", <<>>)
    ELSE IF has_role(RoleOr(users[user_id]), ADMIN)
         THEN Allow(user_id, <<>>)
    ELSE IF RoleOr(users[user_id]) = DEPARTMENT_ADMIN /\ allow_own_department
         THEN IF /\ member_id # NULL
                 /\ member_id \in DOMAIN team_members
                 /\ team_members[member_id].user_id \in DOMAIN users
              THEN IF users[team_members[member_id].user_id].department_id
                        = users[user_id].department_id
                   THEN Allow(user_id, <<>>)
                   ELSE Deny(403, "Only members of your department", <<>>)
              ELSE Allow(user_id, <<>>)
    ELSE IF has_role(RoleOr(users[user_id]), MANAGER)
         THEN Allow(user_id, <<>>)
    ELSE Deny(403, "Permission denied", <<>>)

(***************************************************************************)
(* Initial state: the seeded database, nobody logged in.                   *)
(***************************************************************************)
InitUsers ==
    [u \in Users |->
        [role |-> IF u = "u1" THEN MEMBER ELSE MANAGER,
         department_id |-> IF u = "u3" THEN "d2" ELSE "d1",
         is_active |-> TRUE,
         password |-> "password0"]]

InitTeamMembers ==
    [m \in TeamMembers |->
        [user_id |-> IF m = "tm1" THEN "u1" ELSE "u2",
         name |-> IF m = "tm1" THEN "Ana" ELSE "Bruno",
         status |-> "active"]]

InitProjects ==
    [p \in ProjectIds |->
        IF p = "p1"
        THEN [owner_id |-> "u2", team_members |-> {"tm1", "tm2"}, name |-> "n0",
              progress |-> 0, status |-> "active", start_date |-> 0,
              end_date |-> 4]
        ELSE [owner_id |-> "u3", team_members |-> {}, name |-> "n0",
              progress |-> 0, status |-> "planning", start_date |-> 0,
              end_date |-> 2]]

InitTasks ==
    [t \in TaskIds |->
        IF t = "t1"
        THEN [project_id |-> "p1", assignee_id |-> "tm1", status |-> "todo",
              progress |-> 0, name |-> "T1", priority |-> "high", end_date |-> 2]
        ELSE [project_id |-> "p2", assignee_id |-> "tm2", status |-> "todo",
              progress |-> 0, name |-> "T2", priority |-> "medium",
              end_date |-> 2]]

InitRbac ==
    /\ users = InitUsers
    /\ team_members = InitTeamMembers
    /\ projects = InitProjects
    /\ tasks = InitTasks
    /\ share_links = <<>>
    /\ session = NULL
    /\ ops = 0
    /\ resp = NoResp

(***************************************************************************)
(* Invitations: models/invite.py.  One invite, created by manager u2 for   *)
(* an address no fixture user has; it expires at ExpiresAt.                *)
(***************************************************************************)
MaxTime == 3
MaxCalls == 1

InviteIds == {"i1"}
MissingInvite == "i9"
InviteEmail == "new@example.com"
ExpiresAt == 2
NoTime == -1    \* a DateTime column that is null
Workers == {"a", "b"}
READ_COMMITTED == "READ COMMITTED"
REPEATABLE_READ == "REPEATABLE READ"

\* InviteService.create: used_at and revoked_at start null
InitInvites(password) ==
    [i \in InviteIds |->
        [email |-> InviteEmail, password |-> password, created_by |-> "u2",
         expires_at |-> ExpiresAt, used_at |-> NoTime, revoked_at |-> NoTime]]

\* no Invite object loaded in the worker's session
NoInvite ==
    [email |-> NULL, password |-> NULL, created_by |-> NULL,
     expires_at |-> 0, used_at |-> NoTime, revoked_at |-> NoTime]

\* a worker that is handling no accept_invite request
NoAccept ==
    [pc |-> "idle", token |-> NULL, password |-> NULL, seen |-> NoInvite,
     snapshot |-> {}, pending |-> NULL, status |-> 0, at |-> NULL, n |-> 0]

\* no answer of the validate endpoint waiting to be read
NoValidated == [token |-> NULL, status |-> 0, now |-> 0]

\* the invite tables after construction: nobody has the invited address
InitInvite ==
    /\ invites = InitInvites(NULL)
    /\ accounts = {}
    /\ user_settings = {}
    /\ member_profiles = {}
    /\ now = 0
    /\ isolation = REPEATABLE_READ
    /\ acc = [w \in Workers |-> NoAccept]
    /\ validated = NoValidated

\* a task row that is not there
NoTask ==
    [project_id |-> NULL, assignee_id |-> NULL, status |-> NULL, progress |-> 0,
     name |-> NULL, priority |-> NULL, end_date |-> 0]

\* a field of the request body: present with a value, or absent
Absent(blank) == [has |-> FALSE, value |-> blank]
Given(v) == [has |-> TRUE, value |-> v]
Field(values, blank) == {Absent(blank)} \cup {Given(v) : v \in values}

\* no task or project service operation called yet
NoCall ==
    [op |-> NULL, id |-> NULL, status |-> Absent(NULL), progress |-> Absent(0),
     before |-> NoTask]

\* InsightsService.generate not called since the last write
NoReport == [first |-> <<>>, last |-> <<>>, calls |-> 0, today |-> 0]

\* the departments of the fixture users: none has an administrator yet
InitDepartments == [d \in Departments |-> [admin_id |-> NULL]]

\* the jti of the tokens that are logged out
Jtis == {"j1", "j2"}

\* no is_blacklisted call made yet
NoCheck == [jti |-> NULL, result |-> FALSE, n |-> 0]

\* TokenBlacklist.__init__ and init_app: _memory_store = {}, no Redis key;
\* client says whether _redis_client is set
NewBlacklist(client) ==
    [client |-> client,
     redis |-> [j \in Jtis |-> NoTime],
     memory |-> [j \in Jtis |-> NoTime],
     checked |-> NoCheck]

InitTask ==
    /\ tcall = NoCall
    /\ insights = NoReport
    /\ departments = InitDepartments
    /\ token_blacklist = NewBlacklist(FALSE)

(***************************************************************************)
(* Service operations that change the principal's live record.             *)
(***************************************************************************)
\* routes/auth.py login + UserService.authenticate: tokens are issued only to
\* an active user who gives the right password
Login(u, password) ==
    /\ session = NULL
    /\ resp = NoResp
    /\ users[u].is_active
    /\ users[u].password = password
    /\ session' = u
    /\ UNCHANGED <<inviteVars, taskVars, users, team_members, projects, tasks, share_links, ops, resp>>

\* UserService.delete: soft delete, is_active = False
UserService_delete(u) ==
    /\ resp = NoResp
    /\ ops < MaxOps
    /\ users[u].is_active
    /\ users' = [users EXCEPT ![u].is_active = FALSE]
    /\ ops' = ops + 1
    /\ UNCHANGED <<inviteVars, taskVars, team_members, projects, tasks, share_links, session, resp>>

\* UserService.update(user_id, {'role': role})
UserService_update_role(u, role) ==
    /\ resp = NoResp
    /\ ops < MaxOps
    /\ users[u].role # role
    /\ users' = [users EXCEPT ![u].role = role]
    /\ ops' = ops + 1
    /\ UNCHANGED <<inviteVars, taskVars, team_members, projects, tasks, share_links, session, resp>>

(***************************************************************************)
(* A request by the logged-in client; r is what the decorated route        *)
(* answered.  The client reads the response before the next request.       *)
(***************************************************************************)
MkResp(endpoint, params, r, changed) ==
    [endpoint |-> endpoint, subject |-> session,
     subj_active |-> users[session].is_active,
     subj_role |-> users[session].role,
     params |-> params, status |-> r.status, msg |-> r.msg,
     invoked |-> r.invoked, g |-> r.g, lookups |-> r.lookups,
     changed |-> changed]

CanRequest == session # NULL /\ resp = NoResp

Respond ==
    /\ resp # NoResp
    /\ resp' = NoResp
    /\ UNCHANGED <<inviteVars, taskVars, users, team_members, projects, tasks, share_links, session, ops>>

(***************************************************************************)
(* Calls of routes guarded by one decorator each, with a handler that      *)
(* only reads (the decorators themselves write nothing).                   *)
(***************************************************************************)
ReadOnly == UNCHANGED <<inviteVars, taskVars, users, team_members, projects, tasks, share_links, session, ops>>

ProjectTargets == ProjectIds \cup {MissingProject}
TaskTargets == TaskIds \cup {MissingTask}
MemberTargets == TeamMembers \cup {MissingMember, NULL}

CallRequireAuth ==
    /\ CanRequest
    /\ resp' = MkResp("require_auth", NoParams, require_auth(session), FALSE)
    /\ ReadOnly

CallRequireRole ==
    /\ CanRequest
    /\ \E required \in Role :
         resp' = MkResp("require_role", [NoParams EXCEPT !.arg = required],
                        require_role(required, session), FALSE)
    /\ ReadOnly

CallRequirePermission ==
    /\ CanRequest
    /\ \E perm \in Permission :
         resp' = MkResp("require_permission", [NoParams EXCEPT !.arg = perm],
                        require_permission(perm, session), FALSE)
    /\ ReadOnly

CallRequireProjectAccess ==
    /\ CanRequest
    /\ \E ao \in BOOLEAN, am \in BOOLEAN, amg \in BOOLEAN, pid \in ProjectTargets :
         resp' = MkResp("require_project_access",
                        [NoParams EXCEPT !.target = pid, !.f1 = ao, !.f2 = am, !.f3 = amg],
                        require_project_access(ao, am, amg, session, pid), FALSE)
    /\ ReadOnly

CallRequireTaskAccess ==
    /\ CanRequest
    /\ \E aa \in BOOLEAN, apm \in BOOLEAN, tid \in TaskTargets :
         resp' = MkResp("require_task_access",
                        [NoParams EXCEPT !.target = tid, !.f1 = aa, !.f2 = apm],
                        require_task_access(aa, apm, session, tid), FALSE)
    /\ ReadOnly

CallRequireDepartmentAccess ==
    /\ CanRequest
    /\ \E own \in BOOLEAN, mid \in MemberTargets :
         resp' = MkResp("require_department_access",
                        [NoParams EXCEPT !.target = mid, !.f1 = own],
                        require_department_access(own, session, mid), FALSE)
    /\ ReadOnly

CallRequireSelfOrAdmin ==
    /\ CanRequest
    /\ \E target \in Users :
         resp' = MkResp("require_self_or_admin", [NoParams EXCEPT !.target = target],
                        require_self_or_admin(target, session), FALSE)
    /\ ReadOnly

Passwords == {"password0", "password1"}

LoginAny == \E u \in Users, pw \in Passwords : Login(u, pw)
DeactivateAny == \E u \in Users : UserService_delete(u)
UpdateRoleAny == \E u \in Users, role \in RoleValues : UserService_update_role(u, role)

Next ==
    \/ LoginAny
    \/ DeactivateAny
    \/ UpdateRoleAny
    \/ CallRequireAuth
    \/ CallRequireRole
    \/ CallRequirePermission
    \/ CallRequireProjectAccess
    \/ CallRequireTaskAccess
    \/ CallRequireDepartmentAccess
    \/ CallRequireSelfOrAdmin
    \/ Respond

vars == <<rbacVars, inviteVars, taskVars>>

Init == InitRbac /\ InitInvite /\ InitTask

Spec == Init /\ [][Next]_vars

(***************************************************************************)
(* Routes: routes/projects.py, routes/share.py, routes/auth.py, with the   *)
(* service calls they make.                                                *)
(***************************************************************************)
\* what a handler that was reached answers: the decorator's record (handler
\* invoked, g.current_user set) with the handler's status
Answer(d, status, msg) == [d EXCEPT !.status = status, !.msg = msg]

\* @jwt_required() alone: a valid token, no look at the user record
jwt_required(user_id) ==
    [status |-> 200, msg |-> "ok", invoked |-> TRUE, g |-> NULL, lookups |-> <<>>]

\* Department scoping of single-project reads.  The decorator is imported by
\* routes/projects.py from app.utils.rbac but is not in the sources; it is
\* modelled from the specification (4.2, pattern 4): applied to
\* department_admin only, it requires the department of the project's owner
\* to be the principal's department; other roles pass; a project that does
\* not exist is left to the handler.
require_project_department_scope(user_id, project_id) ==
    IF RoleOr(users[user_id]) # DEPARTMENT_ADMIN THEN Allow(user_id, <<>>)
    ELSE IF project_id \notin DOMAIN projects THEN Allow(user_id, <<>>)
    ELSE IF /\ projects[project_id].owner_id \in DOMAIN users
            /\ users[projects[project_id].owner_id].department_id
                 = users[user_id].department_id
         THEN Allow(user_id, <<>>)
         ELSE Deny(403, "Access denied to this project", <<>>)

\* get_project handler with the existence test inverted
get_project_Inverted(d, project_id) ==
    IF project_id \in DOMAIN projects
    THEN Answer(d, 404, "Project not found")
    ELSE Answer(d, 200, "project")

\* routes/projects.py get_project (the handler body)
get_project(d, project_id) ==
    IF project_id \notin DOMAIN projects
    THEN Answer(d, 404, "Project not found")
    ELSE Answer(d, 200, "project")

\* GET /api/projects/<project_id>: @require_auth, @require_project_department_scope
GetProjectRoute(user_id, project_id) ==
    IF ~require_auth(user_id).invoked THEN require_auth(user_id)
    ELSE IF ~require_project_department_scope(user_id, project_id).invoked
         THEN require_project_department_scope(user_id, project_id)
         ELSE get_project(require_auth(user_id), project_id)

GetProject ==
    /\ CanRequest
    /\ \E pid \in ProjectTargets :
         resp' = MkResp("get_project", [NoParams EXCEPT !.target = pid],
                        GetProjectRoute(session, pid), FALSE)
    /\ ReadOnly

\* ProjectService.update: the fields present in the body are written
ProjectService_update(project, has_name, name, has_members, member_ids) ==
    [project EXCEPT
        !.name = IF has_name THEN name ELSE @,
        !.team_members =
            IF has_members THEN member_ids \cap DOMAIN team_members ELSE @]

\* a write counts against MaxOps
Mutation(changed) ==
    /\ changed => ops < MaxOps
    /\ ops' = IF changed THEN ops + 1 ELSE ops

\* PUT /api/projects/<project_id>:
\* @require_project_access(allow_owner=True, allow_member=False, allow_manager=True)
UpdateProject ==
    /\ CanRequest
    /\ \E pid \in ProjectTargets, has_name \in BOOLEAN, has_members \in BOOLEAN,
          member_ids \in SUBSET TeamMembers :
         LET d == require_project_access(TRUE, FALSE, TRUE, session, pid)
             after ==
                 IF d.invoked
                 THEN [projects EXCEPT
                          ![pid] = ProjectService_update(@, has_name, "n1",
                                                         has_members, member_ids)]
                 ELSE projects
         IN  /\ has_members \/ member_ids = {}
             /\ projects' = after
             /\ Mutation(after # projects)
             /\ resp' = MkResp("update_project", [NoParams EXCEPT !.target = pid],
                               IF d.invoked THEN Answer(d, 200, "Project updated successfully")
                               ELSE d,
                               after # projects)
    /\ UNCHANGED <<inviteVars, taskVars, users, team_members, tasks, share_links, session>>

\* ProjectService.add_team_member; NULL when the project or the member is missing
ProjectService_add_team_member(project_id, team_member_id) ==
    IF project_id \notin DOMAIN projects \/ team_member_id \notin DOMAIN team_members
    THEN projects
    ELSE [projects EXCEPT ![project_id].team_members = @ \cup {team_member_id}]

\* ProjectService.remove_team_member
ProjectService_remove_team_member(project_id, team_member_id) ==
    IF project_id \notin DOMAIN projects \/ team_member_id \notin DOMAIN team_members
    THEN projects
    ELSE [projects EXCEPT ![project_id].team_members = @ \ {team_member_id}]

MemberFound(project_id, team_member_id) ==
    project_id \in DOMAIN projects /\ team_member_id \in DOMAIN team_members

\* POST /api/projects/<project_id>/members/<team_member_id>
AddProjectMember ==
    /\ CanRequest
    /\ \E pid \in ProjectTargets, mid \in TeamMembers \cup {MissingMember} :
         LET d == require_project_access(TRUE, FALSE, TRUE, session, pid)
             after == IF d.invoked THEN ProjectService_add_team_member(pid, mid)
                      ELSE projects
         IN  /\ projects' = after
             /\ Mutation(after # projects)
             /\ resp' = MkResp("add_project_member",
                               [NoParams EXCEPT !.target = pid, !.arg = mid],
                               IF ~d.invoked THEN d
                               ELSE IF MemberFound(pid, mid)
                                    THEN Answer(d, 200, "Team member added to project")
                                    ELSE Answer(d, 404, "Project or team member not found"),
                               after # projects)
    /\ UNCHANGED <<inviteVars, taskVars, users, team_members, tasks, share_links, session>>

\* DELETE /api/projects/<project_id>/members/<team_member_id>
RemoveProjectMember ==
    /\ CanRequest
    /\ \E pid \in ProjectTargets, mid \in TeamMembers \cup {MissingMember} :
         LET d == require_project_access(TRUE, FALSE, TRUE, session, pid)
             after == IF d.invoked THEN ProjectService_remove_team_member(pid, mid)
                      ELSE projects
         IN  /\ projects' = after
             /\ Mutation(after # projects)
             /\ resp' = MkResp("remove_project_member",
                               [NoParams EXCEPT !.target = pid, !.arg = mid],
                               IF ~d.invoked THEN d
                               ELSE IF MemberFound(pid, mid)
                                    THEN Answer(d, 200, "Team member removed from project")
                                    ELSE Answer(d, 404, "Project or team member not found"),
                               after # projects)
    /\ UNCHANGED <<inviteVars, taskVars, users, team_members, tasks, share_links, session>>

\* the expiresInDays values a client may send: below, inside and above 1..30
ExpiryInputs == {0, 7, 31}

\* ShareLink.id (uuid4) and ShareLink.token of the rows in creation order; the
\* token of a link is its id
LinkIds == <<"s1", "s2", "s3", "s4", "s5">>

\* POST /api/share/projects/<project_id> with ShareLinkService.create
CreateShareLink ==
    /\ CanRequest
    /\ \E pid \in ProjectTargets, days \in ExpiryInputs :
         LET d == require_project_access(TRUE, FALSE, TRUE, session, pid)
             valid == days >= 1 /\ days <= 30
             created == d.invoked /\ valid /\ pid \in DOMAIN projects
         IN  /\ share_links' =
                   IF created
                   THEN Append(share_links,
                               [id |-> LinkIds[Len(share_links) + 1],
                                project_id |-> pid, created_by |-> session,
                                expires_in_days |-> days,
                                expires_at |-> now + days,
                                revoked_at |-> NoTime])
                   ELSE share_links
             /\ Mutation(created)
             /\ resp' = MkResp("create_share_link", [NoParams EXCEPT !.target = pid],
                               IF ~d.invoked THEN d
                               ELSE IF ~valid THEN Answer(d, 400, "expiresInDays 1..30")
                               ELSE Answer(d, 201, "Share link created"),
                               created)
    /\ UNCHANGED <<inviteVars, taskVars, users, team_members, projects, tasks, session>>

\* GET /api/auth/me: @jwt_required()
AuthMe ==
    /\ CanRequest
    /\ resp' = MkResp("auth_me", NoParams,
                      IF session \notin DOMAIN users
                      THEN Answer(jwt_required(session), 404, "User not found")
                      ELSE Answer(jwt_required(session), 200, "user"),
                      FALSE)
    /\ ReadOnly

\* POST /api/auth/refresh: @jwt_required(refresh=True), a new access token
AuthRefresh ==
    /\ CanRequest
    /\ resp' = MkResp("auth_refresh", NoParams,
                      Answer(jwt_required(session), 200, "Token refreshed successfully"),
                      FALSE)
    /\ ReadOnly

\* GET /api/auth/verify: @jwt_required()
AuthVerify ==
    /\ CanRequest
    /\ resp' = MkResp("auth_verify", NoParams,
                      Answer(jwt_required(session), 200, "Token is valid"), FALSE)
    /\ ReadOnly

\* routes/auth.py change_password (the handler body)
change_password(user_id, current, new) ==
    IF user_id \notin DOMAIN users
    THEN Answer(jwt_required(user_id), 404, "User not found")
    ELSE IF users[user_id].password # current
    THEN Answer(jwt_required(user_id), 401, "Current password is incorrect")
    ELSE IF Len(new) < 8
    THEN Answer(jwt_required(user_id), 400, "New password too short")
    ELSE Answer(jwt_required(user_id), 200, "Password changed successfully")

\* POST /api/auth/change-password: @jwt_required(); UserService.update on success
ChangePassword ==
    /\ CanRequest
    /\ \E current \in Passwords, new \in Passwords \cup {"short"} :
         LET r == change_password(session, current, new)
             after == IF r.status = 200
                      THEN [users EXCEPT ![session].password = new]
                      ELSE users
         IN  /\ users' = after
             /\ Mutation(after # users)
             /\ resp' = MkResp("change_password", NoParams, r, after # users)
    /\ UNCHANGED <<inviteVars, taskVars, team_members, projects, tasks, share_links, session>>

NextApi ==
    \/ LoginAny
    \/ DeactivateAny
    \/ UpdateRoleAny
    \/ GetProject
    \/ UpdateProject
    \/ AddProjectMember
    \/ RemoveProjectMember
    \/ CreateShareLink
    \/ AuthMe
    \/ AuthRefresh
    \/ AuthVerify
    \/ ChangePassword
    \/ Respond

SpecApi == Init /\ [][NextApi]_vars


(***************************************************************************)
(* Invitations: models/invite.py, services/invite_service.py,              *)
(* routes/invites.py.                                                      *)
(***************************************************************************)
\* an expiry test that already counts the instant expires_at as expired
is_expired_Inclusive(invite, t) == t >= invite.expires_at

\* Invite.is_expired: datetime.utcnow() > self.expires_at
is_expired(invite, t) == t > invite.expires_at

\* Invite.is_used
is_used(invite) == invite.used_at # NoTime

\* Invite.is_revoked
is_revoked(invite) == invite.revoked_at # NoTime

\* Invite.is_valid
is_valid(invite, t) ==
    ~is_expired(invite, t) /\ ~is_used(invite) /\ ~is_revoked(invite)

\* Invite.use: self.used_at = datetime.utcnow()
use(invite, t) == [invite EXCEPT !.used_at = t]

\* Invite.revoke: self.revoked_at = datetime.utcnow()
revoke(invite, t) == [invite EXCEPT !.revoked_at = t]

\* the token of invite i is i itself; Invite.query.filter_by(token=token).first()
get_by_token(token) == IF token \in DOMAIN invites THEN token ELSE NULL

\* InviteService.get_valid_by_token: the invite's id, or NULL
get_valid_by_token(token, t) ==
    IF get_by_token(token) # NULL /\ is_valid(invites[token], t)
    THEN token
    ELSE NULL

\* the emails of a set of rows
Emails(rows) == {r.email : r \in rows}

\* the id the new User row gets (uuid4): one per worker
NewUserId(w) == IF w = "a" THEN "nu_a" ELSE "nu_b"

\* the answer of the validate endpoint, once sent, is read before anything
\* else happens
Quiet == validated = NoValidated

\* datetime.utcnow() moves on
Tick ==
    /\ Quiet
    /\ now < MaxTime
    /\ now' = now + 1
    /\ UNCHANGED <<rbacVars, taskVars, invites, accounts, user_settings, member_profiles,
                   isolation, acc, validated>>

(***************************************************************************)
(* POST /api/invites/<token>/accept (public).  Each worker handles the     *)
(* request in its own session and transaction; the steps are the points    *)
(* where it talks to the database.                                         *)
(***************************************************************************)
AcceptTokens == InviteIds \cup {MissingInvite}
AcceptPasswords == {NULL, "secret123"}

\* the request ends: the response is built and the session is removed, which
\* rolls back whatever was not committed
EndCall(w, status, at) ==
    [acc[w] EXCEPT !.pc = "idle", !.status = status, !.at = at,
                   !.password = NULL, !.seen = NoInvite, !.snapshot = {},
                   !.pending = NULL]

\* a flush on a connection in autocommit mode: the row is committed at once
session_flush_Autocommit(table, row) == table \cup {row}

\* db.session.flush() of the new User inside the open transaction: the row
\* is pending, the committed table is as it was
session_flush(table, row) == table

\* accept_invite, first statement: invite = InviteService.get_valid_by_token(token);
\* 404 if there is none.  The Invite object stays in the session.
AcceptRoute(w, token, password) ==
    /\ Quiet
    /\ acc[w].pc = "idle"
    /\ acc[w].n < MaxCalls
    /\ LET i == get_valid_by_token(token, now)
           call == [acc[w] EXCEPT !.token = token, !.password = password,
                                  !.n = @ + 1,
                                  !.seen = IF get_by_token(token) # NULL
                                           THEN invites[token] ELSE NoInvite,
                                  !.snapshot = Emails(accounts)]
       IN  acc' = [acc EXCEPT ![w] =
                     IF i = NULL
                     THEN [acc[w] EXCEPT !.token = token, !.n = @ + 1,
                                         !.status = 404, !.at = "route"]
                     ELSE [call EXCEPT !.pc = "service", !.status = 0,
                                       !.at = NULL]]
    /\ UNCHANGED <<rbacVars, taskVars, invites, accounts, user_settings, member_profiles,
                   now, isolation, validated>>

\* InviteService.accept up to the creation of the User object.  The second
\* get_valid_by_token returns the Invite object already in the session (its
\* columns are not reloaded); is_expired reads the clock again.
\* User.query.filter_by(email=...) reads the transaction's snapshot under
\* REPEATABLE READ and the committed table under READ COMMITTED.
AcceptService(w) ==
    /\ Quiet
    /\ acc[w].pc = "service"
    /\ LET invite == acc[w].seen
           existing == IF isolation = REPEATABLE_READ
                       THEN acc[w].snapshot
                       ELSE Emails(accounts)
       IN  acc' = [acc EXCEPT ![w] =
                     IF ~is_valid(invite, now)
                     THEN EndCall(w, 400, "invalid")
                     ELSE IF invite.email \in existing
                     THEN EndCall(w, 400, "email")
                     ELSE IF invite.password = NULL /\ acc[w].password = NULL
                     THEN EndCall(w, 400, "password")
                     ELSE [acc[w] EXCEPT !.pc = "flush"]]
    /\ UNCHANGED <<rbacVars, taskVars, invites, accounts, user_settings, member_profiles,
                   now, isolation, validated>>

\* db.session.add(user); db.session.flush().  The INSERT waits while another
\* transaction holds an uncommitted row with the same email and fails on
\* users.email (unique) when the committed table has one: accept_invite
\* answers 500 through `except Exception`.
AcceptFlush(w) ==
    /\ Quiet
    /\ acc[w].pc = "flush"
    /\ \A v \in Workers \ {w} :
          acc[v].pending = NULL \/ acc[v].seen.email # acc[w].seen.email
    /\ LET row == [id |-> NewUserId(w), email |-> acc[w].seen.email]
       IN  IF row.email \in Emails(accounts)
           THEN /\ acc' = [acc EXCEPT ![w] = EndCall(w, 500, "flush")]
                /\ accounts' = accounts
           ELSE /\ acc' = [acc EXCEPT ![w].pc = "commit", ![w].pending = row.id]
                /\ accounts' = session_flush(accounts, row)
    /\ UNCHANGED <<rbacVars, taskVars, invites, user_settings, member_profiles, now,
                   isolation, validated>>

\* the rest of InviteService.accept: UserSettings and TeamMember are added,
\* invite.use(), db.session.commit().  The commit flushes the two INSERTs and
\* the UPDATE of invites and fails as a whole when team_members.email (unique)
\* is taken.  Then accept_invite writes the audit entry and answers 201.
AcceptCommit(w) ==
    /\ Quiet
    /\ acc[w].pc = "commit"
    /\ LET i == acc[w].token
           user == [id |-> acc[w].pending, email |-> acc[w].seen.email]
           profile == [user_id |-> user.id, email |-> user.email]
       IN  IF profile.email \in Emails(member_profiles)
           THEN /\ acc' = [acc EXCEPT ![w] = EndCall(w, 500, "commit")]
                /\ UNCHANGED <<invites, accounts, user_settings, member_profiles>>
           ELSE /\ acc' = [acc EXCEPT ![w] = EndCall(w, 201, "done")]
                /\ accounts' = accounts \cup {user}
                /\ user_settings' = user_settings \cup {user.id}
                /\ member_profiles' = member_profiles \cup {profile}
                /\ invites' = [invites EXCEPT ![i] = use(@, now)]
    /\ UNCHANGED <<rbacVars, taskVars, now, isolation, validated>>

\* InviteService.revoke: no look at used_at or revoked_at; revoked_at is
\* written and committed
InviteService_revoke(invite_id, t) ==
    IF invite_id \in DOMAIN invites
    THEN [invites EXCEPT ![invite_id] = revoke(@, t)]
    ELSE invites

\* routes/invites.py revoke_invite (the handler body): 404 for an unknown id,
\* 403 unless the caller created the invite or is an admin
revoke_invite(d, invite_id) ==
    IF invite_id \notin DOMAIN invites
    THEN Answer(d, 404, "Convite nao encontrado")
    ELSE IF invites[invite_id].created_by # d.g
            /\ ~has_role(users[d.g].role, ADMIN)
    THEN Answer(d, 403, "Acesso negado")
    ELSE Answer(d, 200, "Convite revogado com sucesso")

\* DELETE /api/invites/<invite_id>: @require_auth, called with the token of
\* user_id
RevokeInvite(user_id, invite_id) ==
    /\ Quiet
    /\ LET d == require_auth(user_id)
           r == IF d.invoked THEN revoke_invite(d, invite_id) ELSE d
       IN  invites' = IF r.invoked /\ r.status = 200
                      THEN InviteService_revoke(invite_id, now)
                      ELSE invites
    /\ UNCHANGED <<rbacVars, taskVars, accounts, user_settings, member_profiles, now,
                   isolation, acc, validated>>

\* routes/invites.py validate_invite: 404 unless get_valid_by_token finds the
\* invite
validate_invite(token, t) == IF get_valid_by_token(token, t) = NULL THEN 404 ELSE 200

\* GET /api/invites/validate/<token> (public)
ValidateInvite ==
    /\ Quiet
    /\ \E token \in AcceptTokens :
         validated' = [token |-> token, status |-> validate_invite(token, now),
                       now |-> now]
    /\ UNCHANGED <<rbacVars, taskVars, invites, accounts, user_settings, member_profiles,
                   now, isolation, acc>>

\* the client reads the answer of the validate endpoint
ValidateRespond ==
    /\ ~Quiet
    /\ validated' = NoValidated
    /\ UNCHANGED <<rbacVars, taskVars, invites, accounts, user_settings, member_profiles,
                   now, isolation, acc>>

RevokeInviteAny ==
    \E user_id \in Users, invite_id \in InviteIds \cup {MissingInvite} :
        RevokeInvite(user_id, invite_id)
AcceptRouteAny ==
    \E w \in Workers, token \in AcceptTokens, password \in AcceptPasswords :
        AcceptRoute(w, token, password)
AcceptServiceAny == \E w \in Workers : AcceptService(w)
AcceptFlushAny == \E w \in Workers : AcceptFlush(w)
AcceptCommitAny == \E w \in Workers : AcceptCommit(w)

\* what the database holds when the invite is sent: the invited address may
\* already belong to a user or to a team member profile, the invite may carry
\* a pre-set password, and the server runs at either isolation level
InitInviteAny ==
    /\ \E password \in {NULL, "preset-hash"} : invites = InitInvites(password)
    /\ \/ accounts = {} /\ member_profiles = {}
       \/ /\ accounts = {[id |-> "u3", email |-> InviteEmail]}
          /\ member_profiles = {}
       \/ /\ accounts = {}
          /\ member_profiles = {[user_id |-> "u1", email |-> InviteEmail]}
    /\ user_settings = {r.id : r \in accounts}
    /\ now = 0
    /\ isolation \in {READ_COMMITTED, REPEATABLE_READ}
    /\ acc = [w \in Workers |-> NoAccept]
    /\ validated = NoValidated

NextInvite ==
    \/ Tick
    \/ AcceptRouteAny
    \/ AcceptServiceAny
    \/ AcceptFlushAny
    \/ AcceptCommitAny
    \/ RevokeInviteAny
    \/ ValidateInvite
    \/ ValidateRespond

\* the fixture with an invite sent into any of these databases
InitSent == InitRbac /\ InitInviteAny /\ InitTask

SpecInvite == InitSent /\ [][NextInvite]_vars

(***************************************************************************)
(* Share links: models/share_link.py, services/share_link_service.py,      *)
(* routes/share.py.  The clock counts days.                                *)
(***************************************************************************)
MissingLink == "s9"
LinkTargets == {LinkIds[k] : k \in 1..Len(LinkIds)} \cup {MissingLink}

\* ShareLink.query.get(link_id) / filter_by(token=token).first(): the place of
\* the row, 0 when there is none
LinkPlace(link_id) ==
    IF \E k \in 1..Len(share_links) : share_links[k].id = link_id
    THEN CHOOSE k \in 1..Len(share_links) : share_links[k].id = link_id
    ELSE 0

\* ShareLink.is_expired: datetime.utcnow() > self.expires_at
ShareLink_is_expired(link, t) == t > link.expires_at

\* ShareLink.is_valid: not self.is_expired
ShareLink_is_valid(link, t) == ~ShareLink_is_expired(link, t)

\* ShareLinkService.get_valid_by_token: the place of the row, or 0
ShareLinkService_get_valid_by_token(token, t) ==
    IF LinkPlace(token) # 0 /\ ShareLink_is_valid(share_links[LinkPlace(token)], t)
    THEN LinkPlace(token)
    ELSE 0

\* ShareLinkService.revoke(link_id), called by revoke_share_link and defined
\* nowhere in src: a soft delete ("the link is not physically deleted") that
\* marks the row revoked at t
ShareLinkService_revoke(link_id, t) ==
    [share_links EXCEPT ![LinkPlace(link_id)].revoked_at = t]

\* routes/share.py revoke_share_link (the handler body): 404 for an unknown
\* id, 403 unless the caller created the link or is an admin
revoke_share_link(d, link_id) ==
    IF LinkPlace(link_id) = 0
    THEN Answer(d, 404, "Link de compartilhamento nao encontrado")
    ELSE IF share_links[LinkPlace(link_id)].created_by # d.g
            /\ ~has_role(users[d.g].role, ADMIN)
    THEN Answer(d, 403, "Acesso negado")
    ELSE Answer(d, 200, "Link de compartilhamento revogado com sucesso")

\* DELETE /api/share/links/<link_id>: @require_auth
RevokeShareLink ==
    /\ CanRequest
    /\ \E link_id \in LinkTargets :
         LET d == require_auth(session)
             r == IF d.invoked THEN revoke_share_link(d, link_id) ELSE d
         IN  /\ share_links' = IF r.status = 200
                               THEN ShareLinkService_revoke(link_id, now)
                               ELSE share_links
             /\ resp' = MkResp("revoke_share_link", [NoParams EXCEPT !.target = link_id],
                               r, r.status = 200)
    /\ UNCHANGED <<inviteVars, taskVars, users, team_members, projects, tasks, session, ops>>

\* routes/share.py get_shared_project: 404 without a valid link or without
\* its project; else the project with its tasks (recorded in params.arg).
\* Project.is_deleted and ShareLinkService.record_access are defined nowhere
\* in src: no project is soft-deleted, and the metrics are not part of the
\* answer.
get_shared_project(token, t) ==
    LET k == ShareLinkService_get_valid_by_token(token, t)
        request == [NoResp EXCEPT !.endpoint = "get_shared_project",
                                  !.params.target = token]
    IN  IF k = 0 THEN Answer(request, 404, "Link invalido ou expirado")
        ELSE IF share_links[k].project_id \notin DOMAIN projects
        THEN Answer(request, 404, "Projeto nao encontrado")
        ELSE Answer([request EXCEPT !.params.arg = share_links[k].project_id],
                    200, NULL)

\* GET /api/share/public/<token> (public, no token of a user)
GetSharedProject ==
    /\ resp = NoResp
    /\ Quiet
    /\ \E token \in LinkTargets : resp' = get_shared_project(token, now)
    /\ UNCHANGED <<inviteVars, taskVars, users, team_members, projects, tasks,
                   share_links, session, ops>>

\* a link of u2 for p1 made five days ago for seven days
InitShare ==
    /\ users = InitUsers
    /\ team_members = InitTeamMembers
    /\ projects = InitProjects
    /\ tasks = InitTasks
    /\ share_links = <<[id |-> LinkIds[1], project_id |-> "p1", created_by |-> "u2",
                        expires_in_days |-> 7, expires_at |-> ExpiresAt,
                        revoked_at |-> NoTime]>>
    /\ session = NULL
    /\ ops = 0
    /\ resp = NoResp
    /\ InitInvite
    /\ InitTask

NextShare ==
    \/ LoginAny
    \/ Tick
    \/ CreateShareLink
    \/ RevokeShareLink
    \/ GetSharedProject
    \/ Respond

SpecShare == InitShare /\ [][NextShare]_vars

(***************************************************************************)
(* Token blacklist: utils/token_blacklist.py.  A Redis key and an entry of *)
(* _memory_store are kept as the time they expire at, NoTime when absent.  *)
(***************************************************************************)
MaxChecks == 3
TtlInputs == {1, 2}

\* redis.exists(key) > 0: SETEX removes the key once its ttl has run out
redis_exists(bl, jti, t) == bl.redis[jti] # NoTime /\ t < bl.redis[jti]

\* TokenBlacklist._check_memory: the answer
check_memory(bl, jti, t) == bl.memory[jti] # NoTime /\ ~(t > bl.memory[jti])

\* TokenBlacklist._check_memory: an entry found expired is deleted
memory_after_check(bl, jti, t) ==
    IF bl.memory[jti] # NoTime /\ t > bl.memory[jti]
    THEN [bl.memory EXCEPT ![jti] = NoTime]
    ELSE bl.memory

\* TokenBlacklist._cleanup_expired
cleanup_expired(memory, t) ==
    [j \in DOMAIN memory |->
        IF memory[j] # NoTime /\ t > memory[j] THEN NoTime ELSE memory[j]]

\* TokenBlacklist.add(jti, expires_delta) at time t; redis_ok: SETEX succeeds
TokenBlacklist_add(bl, jti, ttl, t, redis_ok) ==
    IF bl.client
    THEN IF redis_ok
         THEN [bl EXCEPT !.redis[jti] = t + ttl]
         ELSE [bl EXCEPT !.memory[jti] = t + ttl]
    ELSE [bl EXCEPT !.memory = cleanup_expired([bl.memory EXCEPT ![jti] = t + ttl], t)]

\* TokenBlacklist.is_blacklisted(jti) at time t; redis_ok: EXISTS succeeds
TokenBlacklist_is_blacklisted(bl, jti, t, redis_ok) ==
    IF bl.client /\ redis_ok
    THEN [bl EXCEPT !.checked = [jti |-> jti, result |-> redis_exists(bl, jti, t),
                                 n |-> bl.checked.n + 1]]
    ELSE [bl EXCEPT !.checked = [jti |-> jti, result |-> check_memory(bl, jti, t),
                                 n |-> bl.checked.n + 1],
                    !.memory = memory_after_check(bl, jti, t)]

\* POST /api/auth/logout: token_blacklist.add(jti, expires_delta) with the
\* time the token has left
Logout ==
    /\ Quiet
    /\ \E jti \in Jtis, ttl \in TtlInputs, redis_ok \in BOOLEAN :
         /\ token_blacklist' = TokenBlacklist_add(token_blacklist, jti, ttl, now, redis_ok)
         /\ token_blacklist' # token_blacklist
    /\ UNCHANGED <<rbacVars, inviteVars, tcall, insights, departments>>

\* check_if_token_revoked, the token_in_blocklist_loader: a request arrives
\* with the token
CheckToken ==
    /\ Quiet
    /\ token_blacklist.checked.n < MaxChecks
    /\ \E jti \in Jtis, redis_ok \in BOOLEAN :
         token_blacklist' =
            TokenBlacklist_is_blacklisted(token_blacklist, jti, now, redis_ok)
    /\ UNCHANGED <<rbacVars, inviteVars, tcall, insights, departments>>

\* the application with REDIS_URL set or not
InitBlacklist ==
    /\ InitRbac
    /\ InitInvite
    /\ tcall = NoCall
    /\ insights = NoReport
    /\ departments = InitDepartments
    /\ \E client \in BOOLEAN : token_blacklist = NewBlacklist(client)

NextBlacklist ==
    \/ Tick
    \/ Logout
    \/ CheckToken

SpecBlacklist == InitBlacklist /\ [][NextBlacklist]_vars

(***************************************************************************)
(* Department administrators: routes/admin.py, models/department.py.       *)
(***************************************************************************)
MissingDepartment == "d9"
MissingUser == "u9"

\* DepartmentService.set_admin(department_id, user_id), called by the routes
\* and defined nowhere in src: the department's admin_id becomes user_id
DepartmentService_set_admin(department_id, user_id) ==
    [departments EXCEPT ![department_id].admin_id = user_id]

\* Department.query.filter_by(admin_id=user_id).first() is a department other
\* than department_id
AdministersOther(user_id, department_id) ==
    \E e \in DOMAIN departments :
       departments[e].admin_id = user_id /\ e # department_id

\* assign_department_admin without the test for another department
assign_department_admin_NoConflictTest(d, department_id, user_id) ==
    IF department_id \notin DOMAIN departments
    THEN Answer(d, 404, "Department not found")
    ELSE IF user_id \notin DOMAIN users
    THEN Answer(d, 404, "User not found")
    ELSE Answer(d, 200, "administrador do departamento")

\* routes/admin.py assign_department_admin (the handler body up to the
\* writes): what it answers
assign_department_admin(d, department_id, user_id) ==
    IF department_id \notin DOMAIN departments
    THEN Answer(d, 404, "Department not found")
    ELSE IF user_id \notin DOMAIN users
    THEN Answer(d, 404, "User not found")
    ELSE IF AdministersOther(user_id, department_id)
    THEN Answer(d, 409, "ja e administrador do departamento")
    ELSE Answer(d, 200, "administrador do departamento")

\* PUT /api/admin/departments/<department_id>/admin {userId}:
\* @require_permission(Permission.MANAGE_DEPARTMENTS); on success
\* DepartmentService.set_admin and UserService.update(role department_admin)
AssignDepartmentAdmin ==
    /\ CanRequest
    /\ \E department_id \in Departments \cup {MissingDepartment},
          user_id \in Users \cup {MissingUser} :
         LET d == require_permission("manage_departments", session)
             r == IF d.invoked THEN assign_department_admin(d, department_id, user_id)
                  ELSE d
         IN  /\ departments' = IF r.status = 200
                               THEN DepartmentService_set_admin(department_id, user_id)
                               ELSE departments
             /\ users' = IF r.status = 200
                         THEN [users EXCEPT ![user_id].role = DEPARTMENT_ADMIN]
                         ELSE users
             /\ resp' = MkResp("assign_department_admin",
                               [NoParams EXCEPT !.target = department_id,
                                                !.arg = user_id],
                               r, r.status = 200)
    /\ UNCHANGED <<inviteVars, tcall, insights, token_blacklist, team_members,
                   projects, tasks, share_links, session, ops>>

\* DELETE /api/admin/departments/<department_id>/admin:
\* @require_permission(Permission.MANAGE_DEPARTMENTS); 404 for an unknown
\* department, 400 when it has no administrator; else set_admin(None) and the
\* old administrator, if still department_admin, becomes manager
RemoveDepartmentAdmin ==
    /\ CanRequest
    /\ \E department_id \in Departments \cup {MissingDepartment} :
         LET d == require_permission("manage_departments", session)
             r == IF ~d.invoked THEN d
                  ELSE IF department_id \notin DOMAIN departments
                  THEN Answer(d, 404, "Department not found")
                  ELSE IF departments[department_id].admin_id = NULL
                  THEN Answer(d, 400, "Este departamento nao possui um administrador")
                  ELSE Answer(d, 200, "Administrador removido do departamento")
             old_admin_id == departments[department_id].admin_id
         IN  /\ departments' = IF r.status = 200
                               THEN DepartmentService_set_admin(department_id, NULL)
                               ELSE departments
             /\ users' = IF /\ r.status = 200
                            /\ old_admin_id \in DOMAIN users
                            /\ users[old_admin_id].role = DEPARTMENT_ADMIN
                         THEN [users EXCEPT ![old_admin_id].role = MANAGER]
                         ELSE users
             /\ resp' = MkResp("remove_department_admin",
                               [NoParams EXCEPT !.target = department_id],
                               r, r.status = 200)
    /\ UNCHANGED <<inviteVars, tcall, insights, token_blacklist, team_members,
                   projects, tasks, share_links, session, ops>>


(***************************************************************************)
(* Tasks and project progress: services/task_service.py,                   *)
(* models/project.py, ProjectService.update.  Inputs are the ones the      *)
(* route validators and the sanitizer let through: a status of the enum,   *)
(* an integer progress in 0..100.                                          *)
(***************************************************************************)
TaskStatuses == {"todo", "in-progress", "review", "completed"}
ProgressInputs == {0, 25, 100}
NewTaskIds == {"t3"}

RECURSIVE SumProgress(_, _)
\* sum(task.progress for task in tasks)
SumProgress(ids, table) ==
    IF ids = {} THEN 0
    ELSE LET t == CHOOSE x \in ids : TRUE
         IN  table[t].progress + SumProgress(ids \ {t}, table)

\* Project.tasks: the tasks whose project_id is the project
TasksOf(project_id, table) ==
    {t \in DOMAIN table : table[t].project_id = project_id}

\* Project.calculate_progress: int(sum(...) / len(tasks)), 0 without tasks
calculate_progress(project_id, table) ==
    LET ids == TasksOf(project_id, table)
    IN  IF ids = {} THEN 0
        ELSE SumProgress(ids, table) \div Cardinality(ids)

\* TaskService._update_project_progress: project.update_progress() if the
\* project exists
update_project_progress(project_id, table, ptable) ==
    IF project_id \in DOMAIN ptable
    THEN [ptable EXCEPT ![project_id].progress = calculate_progress(project_id, table)]
    ELSE ptable

\* TaskService.create: status and progress are taken from the body
\* independently, defaults 'todo' and 0; the body gives the name and the end
\* date and no priority (default 'medium')
TaskService_create(status, progress, assignee_id, project_id) ==
    [project_id |-> project_id, assignee_id |-> assignee_id,
     status |-> IF status.has THEN status.value ELSE "todo",
     progress |-> IF progress.has THEN progress.value ELSE 0,
     name |-> "T3", priority |-> "medium", end_date |-> 5]

\* TaskService.update: the status branch first, then the progress field
TaskService_update(task, status, progress, project_id) ==
    LET s1 == IF status.has
              THEN [task EXCEPT
                      !.status = status.value,
                      !.progress = IF status.value = "completed" THEN 100
                                   ELSE IF status.value = "todo" /\ @ = 100 THEN 0
                                   ELSE @]
              ELSE task
        s2 == IF progress.has THEN [s1 EXCEPT !.progress = progress.value] ELSE s1
    IN  IF project_id.has THEN [s2 EXCEPT !.project_id = project_id.value] ELSE s2

\* an update_status that resets the progress only as TaskService.update does,
\* and not for 'todo'
TaskService_update_status_KeepProgress(task, status) ==
    [task EXCEPT !.status = status,
                 !.progress = IF status = "completed" THEN 100 ELSE @]

\* TaskService.update_status
TaskService_update_status(task, status) ==
    [task EXCEPT !.status = status,
                 !.progress = IF status = "completed" THEN 100
                              ELSE IF status = "todo" THEN 0
                              ELSE @]

\* max(0, min(100, progress))
Clamp(progress) ==
    IF progress < 0 THEN 0 ELSE IF progress > 100 THEN 100 ELSE progress

\* TaskService.update_progress
TaskService_update_progress(task, progress) ==
    [task EXCEPT !.progress = Clamp(progress),
                 !.status = IF progress = 100 THEN "completed"
                            ELSE IF progress = 0 /\ @ = "completed" THEN "todo"
                            ELSE @]

\* ProjectService.update: `if 'progress' in sanitized: project.progress = ...`
ProjectService_set_progress(project, progress) ==
    IF progress.has THEN [project EXCEPT !.progress = progress.value] ELSE project

\* the record of a call: the operation, the row it was called on, the
\* status and progress it was given, and the task as it was before
Call(op, id, status, progress, before) ==
    [op |-> op, id |-> id, status |-> status, progress |-> progress,
     before |-> before]

\* a committed service call counts against MaxOps; the rest of the database
\* is not touched
TaskWrite ==
    /\ ops < MaxOps
    /\ ops' = ops + 1
    /\ insights' = NoReport
    /\ UNCHANGED <<inviteVars, users, team_members, share_links, session, resp, departments,
                   token_blacklist>>

\* TaskService.create(data), then _update_project_progress(task.project_id)
TaskCreate ==
    /\ TaskWrite
    /\ \E id \in NewTaskIds \ DOMAIN tasks,
          status \in Field(TaskStatuses, NULL),
          progress \in Field(ProgressInputs, 0),
          project_id \in ProjectIds :
         LET task == TaskService_create(status, progress, NULL, project_id)
             table == tasks @@ (id :> task)
         IN  /\ tasks' = table
             /\ projects' = update_project_progress(project_id, table, projects)
             /\ tcall' = Call("create", id, status, progress, NoTask)

\* TaskService.update(task_id, data), then
\* _update_project_progress(task.project_id): the project the task is in now
TaskUpdate ==
    /\ TaskWrite
    /\ \E id \in DOMAIN tasks,
          status \in Field(TaskStatuses, NULL),
          progress \in Field(ProgressInputs, 0),
          project_id \in Field(ProjectIds, NULL) :
         LET task == TaskService_update(tasks[id], status, progress, project_id)
             table == [tasks EXCEPT ![id] = task]
         IN  /\ tasks' = table
             /\ projects' = update_project_progress(task.project_id, table, projects)
             /\ tcall' = Call("update", id, status, progress, tasks[id])

\* TaskService.update_status(task_id, status)
TaskUpdateStatus ==
    /\ TaskWrite
    /\ \E id \in DOMAIN tasks, status \in TaskStatuses :
         LET task == TaskService_update_status(tasks[id], status)
             table == [tasks EXCEPT ![id] = task]
         IN  /\ tasks' = table
             /\ projects' = update_project_progress(task.project_id, table, projects)
             /\ tcall' = Call("update_status", id, Given(status), Absent(0), tasks[id])

\* TaskService.update_progress(task_id, progress)
TaskUpdateProgress ==
    /\ TaskWrite
    /\ \E id \in DOMAIN tasks, progress \in ProgressInputs :
         LET task == TaskService_update_progress(tasks[id], progress)
             table == [tasks EXCEPT ![id] = task]
         IN  /\ tasks' = table
             /\ projects' = update_project_progress(task.project_id, table, projects)
             /\ tcall' = Call("update_progress", id, Absent(NULL), Given(progress),
                              tasks[id])

\* TaskService.delete(task_id), then _update_project_progress(project_id)
TaskDelete ==
    /\ TaskWrite
    /\ \E id \in DOMAIN tasks :
         LET table == [t \in DOMAIN tasks \ {id} |-> tasks[t]]
         IN  /\ tasks' = table
             /\ projects' = update_project_progress(tasks[id].project_id, table,
                                                    projects)
             /\ tcall' = Call("delete", id, Absent(NULL), Absent(0), tasks[id])

\* ProjectService.update(project_id, {'progress': progress})
ProjectSetProgress ==
    /\ TaskWrite
    /\ \E id \in ProjectIds, progress \in ProgressInputs :
         /\ projects' = [projects EXCEPT
                           ![id] = ProjectService_set_progress(@, Given(progress))]
         /\ tcall' = Call("project_update", id, Absent(NULL), Given(progress), NoTask)
    /\ UNCHANGED tasks

NextTask ==
    \/ TaskCreate
    \/ TaskUpdate
    \/ TaskUpdateStatus
    \/ TaskUpdateProgress
    \/ TaskDelete
    \/ ProjectSetProgress

SpecTask == Init /\ [][NextTask]_vars

(***************************************************************************)
(* Insights: services/insights_service.py.  A finding carries its type and *)
(* icon and, for its title and description, the values the text is         *)
(* formatted from: the names in the order they are printed, and the        *)
(* numbers.  Dates are days.                                               *)
(***************************************************************************)
MaxReports == 2
TodayInputs == {1, 3}

\* the primary keys in the order the tables return their rows
RowOrder == <<"p1", "p2", "p3", "t1", "t2", "t3", "t4", "t5", "t6", "tm1", "tm2">>

\* Model.query.all(): the rows of the table, in that order
QueryAll(table) ==
    LET ids == SelectSeq(RowOrder, LAMBDA id : id \in DOMAIN table)
    IN  [k \in 1..Len(ids) |-> table[ids[k]]]

Finding(type, icon, names, nums) ==
    [type |-> type, icon |-> icon, names |-> names, nums |-> nums]

\* ', '.join(f'"{x.name}"' for x in rows[:3])
FirstNames(rows) ==
    [k \in 1..(IF Len(rows) < 3 THEN Len(rows) ELSE 3) |-> rows[k].name]

\* collections.Counter(keys): the count of each key, in the order the keys
\* first occur
Counter(keys) ==
    LET firsts == SelectSeq([k \in 1..Len(keys) |-> k],
                            LAMBDA k : \A j \in 1..(k - 1) : keys[j] # keys[k])
    IN  [i \in 1..Len(firsts) |->
            [id |-> keys[firsts[i]],
             count |-> Cardinality({j \in 1..Len(keys) : keys[j] = keys[firsts[i]]})]]

\* The doubles of (elapsed_days / total_days) * 100 and of that times 0.7,
\* against the exact values, for total_days up to 50 (IEEE 754 binary64,
\* round to nearest): the pairs <<elapsed_days, total_days>> whose exact
\* value is an integer and whose double lies above it (up), below it (down),
\* and whose double of expected_progress * 0.7 lies above the exact integer
\* (threshold_up).  A double that is off where the exact value is no integer
\* changes no comparison with an integer and no int().
Rounded ==
    [up |-> {<<11, 20>>, <<7, 25>>, <<14, 25>>, <<22, 40>>, <<7, 50>>, <<14, 50>>,
             <<28, 50>>},
     down |-> {<<29, 50>>},
     threshold_up |-> {<<27, 35>>}]

\* the schedule of a project as _behind_schedule_projects and
\* _on_track_projects compute it: whether the project is looked at, its
\* total_days, expected_progress * total_days
\* (expected_progress = min(elapsed_days / total_days * 100, 100)), and the
\* side the doubles are off to
Schedule(p, today) ==
    LET total == p.end_date - p.start_date
        elapsed == today - p.start_date
    IN  [tracked |-> /\ p.status \notin {"completed", "on-hold"}
                     /\ p.end_date > p.start_date
                     /\ elapsed > 0,
         total |-> total,
         expected |-> IF elapsed < total THEN elapsed * 100 ELSE 100 * total,
         up |-> <<elapsed, total>> \in Rounded.up,
         down |-> <<elapsed, total>> \in Rounded.down,
         threshold_up |-> <<elapsed, total>> \in Rounded.threshold_up]

\* int(x) of the double x whose exact value is num / den, num >= 0
IntPart(num, den, down) ==
    IF down /\ num % den = 0 /\ num > 0 THEN (num \div den) - 1 ELSE num \div den

\* _overdue_tasks, _overdue_projects, _unassigned_high_priority
\* max(overdue, key=days late) taking the last of the most overdue
most_overdue_LastOfTies(overdue) ==
    CHOOSE k \in 1..Len(overdue) :
       /\ \A j \in 1..Len(overdue) : overdue[j].end_date >= overdue[k].end_date
       /\ \A j \in (k + 1)..Len(overdue) : overdue[j].end_date > overdue[k].end_date

\* max(overdue, key=days late): the index of the first of the most overdue
most_overdue(overdue) ==
    CHOOSE k \in 1..Len(overdue) :
       /\ \A j \in 1..Len(overdue) : overdue[j].end_date >= overdue[k].end_date
       /\ \A j \in 1..(k - 1) : overdue[j].end_date > overdue[k].end_date

critical_insights(tlist, plist, today) ==
    LET overdue == SelectSeq(tlist, LAMBDA t : t.end_date < today /\ t.status # "completed")
        high == SelectSeq(overdue, LAMBDA t : t.priority = "high")
        most == most_overdue(overdue)
        late == SelectSeq(plist, LAMBDA p : p.end_date < today /\ p.status # "completed")
        unassigned == SelectSeq(tlist, LAMBDA t : /\ t.priority = "high"
                                                  /\ t.assignee_id = NULL
                                                  /\ t.status # "completed")
    IN  (IF overdue = <<>> THEN <<>>
         ELSE <<Finding("critical", "AlertTriangle", <<overdue[most].name>>,
                        <<Len(overdue), Len(high), today - overdue[most].end_date>>)>>)
        \o [k \in 1..Len(late) |->
               Finding("critical", "FolderClock", <<late[k].name>>,
                       <<today - late[k].end_date, late[k].progress>>)]
        \o (IF unassigned = <<>> THEN <<>>
            ELSE <<Finding("critical", "UserX", FirstNames(unassigned),
                           <<Len(unassigned)>>)>>)

\* _due_soon_tasks, _overloaded_members, _behind_schedule_projects
warning_insights(tlist, plist, members, today) ==
    LET due == SelectSeq(tlist, LAMBDA t : /\ today <= t.end_date
                                           /\ t.end_date <= today + 3
                                           /\ t.status # "completed")
        active == SelectSeq(tlist, LAMBDA t : /\ t.assignee_id # NULL
                                              /\ t.status \in {"todo", "in-progress", "review"})
        loads == Counter([k \in 1..Len(active) |-> active[k].assignee_id])
        over == SelectSeq(loads, LAMBDA c : c.count >= 5)
        \* expected_progress > 30 and actual_progress < expected_progress * 0.7
        behind == SelectSeq(plist, LAMBDA p :
                     LET sch == Schedule(p, today)
                     IN  /\ sch.tracked
                         /\ \/ sch.expected > 30 * sch.total
                            \/ sch.expected = 30 * sch.total /\ sch.up
                         /\ \/ 10 * p.progress * sch.total < 7 * sch.expected
                            \/ /\ 10 * p.progress * sch.total = 7 * sch.expected
                               /\ sch.threshold_up)
    IN  (IF due = <<>> THEN <<>>
         ELSE <<Finding("warning", "Clock", FirstNames(due), <<Len(due)>>)>>)
        \o [k \in 1..Len(over) |->
               Finding("warning", "UserCog",
                       <<IF over[k].id \in DOMAIN members
                         THEN members[over[k].id].name ELSE "Desconhecido">>,
                       <<over[k].count>>)]
        \o [k \in 1..Len(behind) |->
               LET sch == Schedule(behind[k], today)
               IN  Finding("warning", "TrendingDown", <<behind[k].name>>,
                           <<behind[k].progress,
                             IntPart(sch.expected, sch.total, sch.down),
                             IntPart(sch.expected - behind[k].progress * sch.total,
                                     sch.total, sch.down)>>)]

\* _recently_completed, _on_track_projects, _top_performer
positive_insights(tlist, plist, members, today) ==
    LET completed == SelectSeq(tlist, LAMBDA t : t.status = "completed")
        on_track == SelectSeq(plist, LAMBDA p :
                       LET sch == Schedule(p, today)
                       IN  /\ sch.tracked
                           /\ \/ p.progress * sch.total > sch.expected
                              \/ /\ p.progress * sch.total = sch.expected
                                 /\ ~sch.up)
        credited == SelectSeq(completed, LAMBDA t : t.assignee_id # NULL)
        done == Counter([k \in 1..Len(credited) |-> credited[k].assignee_id])
        \* most_common(1): the first of the highest counts
        top == CHOOSE k \in 1..Len(done) :
                  /\ \A j \in 1..Len(done) : done[j].count <= done[k].count
                  /\ \A j \in 1..(k - 1) : done[j].count < done[k].count
    IN  (IF completed = <<>> THEN <<>>
         ELSE <<Finding("positive", "CheckCircle2", <<>>,
                        <<Len(completed), (Len(completed) * 100) \div Len(tlist)>>)>>)
        \o (IF on_track = <<>> THEN <<>>
            ELSE <<Finding("positive", "TrendingUp", FirstNames(on_track),
                           <<Len(on_track)>>)>>)
        \o (IF done = <<>> THEN <<>>
            ELSE IF done[top].count < 2 THEN <<>>
            ELSE <<Finding("positive", "Trophy",
                           <<IF done[top].id \in DOMAIN members
                             THEN members[done[top].id].name ELSE "Desconhecido">>,
                           <<done[top].count>>)>>)

\* _summary_stats
summary_stats(tlist, plist, members) ==
    LET pending(priority) ==
            Len(SelectSeq(tlist, LAMBDA t : t.priority = priority /\ t.status # "completed"))
    IN  IF tlist = <<>> THEN <<Finding("info", "Info", <<>>, <<>>)>>
        ELSE <<Finding("info", "BarChart3", <<>>,
                       <<Len(SelectSeq(plist, LAMBDA p : p.status = "active")),
                         Cardinality({m \in DOMAIN members : members[m].status = "active"}),
                         Len(tlist), pending("high"), pending("medium"),
                         pending("low")>>)>>

\* a generate that sorts the info findings to the front
generate_InfoFirst(tlist, plist, members, today) ==
    LET found == critical_insights(tlist, plist, today)
                   \o warning_insights(tlist, plist, members, today)
                   \o positive_insights(tlist, plist, members, today)
                   \o summary_stats(tlist, plist, members)
        OfType(type) == SelectSeq(found, LAMBDA i : i.type = type)
    IN  OfType("info") \o OfType("critical") \o OfType("warning") \o OfType("positive")

\* InsightsService.generate: the findings in generation order, then
\* insights.sort(key=priority), a stable sort on the four types
generate(tlist, plist, members, today) ==
    LET found == critical_insights(tlist, plist, today)
                   \o warning_insights(tlist, plist, members, today)
                   \o positive_insights(tlist, plist, members, today)
                   \o summary_stats(tlist, plist, members)
        OfType(type) == SelectSeq(found, LAMBDA i : i.type = type)
    IN  OfType("critical") \o OfType("warning") \o OfType("positive") \o OfType("info")

\* the output of generate for the tables as they are
Insights(table, ptable, members, today) ==
    generate(QueryAll(table), QueryAll(ptable), members, today)

\* a call of generate that may get the tasks in the reverse order
Generate_AnyOrder ==
    /\ insights.calls < MaxReports
    /\ \E today \in TodayInputs, reversed \in BOOLEAN :
         LET rows == QueryAll(tasks)
             tlist == IF reversed
                      THEN [k \in 1..Len(rows) |-> rows[Len(rows) + 1 - k]]
                      ELSE rows
             out == generate(tlist, QueryAll(projects), team_members, today)
         IN  /\ insights.calls > 0 => today = insights.today
             /\ insights' = [first |-> IF insights.calls = 0 THEN out
                                       ELSE insights.first,
                             last |-> out, calls |-> insights.calls + 1,
                             today |-> today]
    /\ UNCHANGED <<rbacVars, inviteVars, tcall, departments, token_blacklist>>

\* GET /api/insights: InsightsService.generate().  The calls made after the
\* first, while nothing was written, are made on the same date.
Generate ==
    /\ insights.calls < MaxReports
    /\ \E today \in TodayInputs :
         LET out == Insights(tasks, projects, team_members, today)
         IN  /\ insights.calls > 0 => today = insights.today
             /\ insights' = [first |-> IF insights.calls = 0 THEN out
                                       ELSE insights.first,
                             last |-> out, calls |-> insights.calls + 1,
                             today |-> today]
    /\ UNCHANGED <<rbacVars, inviteVars, tcall, departments, token_blacklist>>

\* TaskService.update(task_id, data) with data the task's own values
Resave ==
    /\ TaskWrite
    /\ \E id \in DOMAIN tasks :
         LET task == TaskService_update(tasks[id], Given(tasks[id].status),
                                        Given(tasks[id].progress),
                                        Given(tasks[id].project_id))
             table == [tasks EXCEPT ![id] = task]
         IN  /\ tasks' = table
             /\ projects' = update_project_progress(task.project_id, table, projects)
             /\ tcall' = Call("resave", id, Given(tasks[id].status),
                              Given(tasks[id].progress), tasks[id])

\* six tasks: five active ones assigned to tm1, one of high priority that
\* nobody is assigned to
InsightTasks ==
    [t \in {"t1", "t2", "t3", "t4", "t5", "t6"} |->
        [project_id |-> IF t \in {"t1", "t2", "t3"} THEN "p1" ELSE "p2",
         assignee_id |-> IF t = "t6" THEN NULL ELSE "tm1",
         status |-> IF t \in {"t2", "t5"} THEN "in-progress" ELSE "todo",
         progress |-> IF t \in {"t2", "t5"} THEN 25 ELSE 0,
         name |-> t,
         priority |-> IF t \in {"t1", "t6"} THEN "high"
                      ELSE IF t = "t3" THEN "low" ELSE "medium",
         end_date |-> IF t \in {"t1", "t2"} THEN 2 ELSE 5]]

\* the seeded database with the six tasks, each project's progress computed
\* from its tasks
InitInsights ==
    /\ users = InitUsers
    /\ team_members = InitTeamMembers
    /\ tasks = InsightTasks
    /\ projects = [p \in ProjectIds |->
                      [InitProjects[p] EXCEPT
                          !.progress = calculate_progress(p, InsightTasks)]]
    /\ share_links = <<>>
    /\ session = NULL
    /\ ops = 0
    /\ resp = NoResp
    /\ InitInvite
    /\ InitTask

NextInsights ==
    \/ TaskUpdateStatus
    \/ TaskUpdateProgress
    \/ ProjectSetProgress
    \/ Resave
    \/ Generate

SpecInsights == InitInsights /\ [][NextInsights]_vars

\* ---------------------------------------------------------------------
\* generate over drawn dates: the six tasks with the end dates of t1 and t2
\* and the status and priority of t1 drawn and t3 due on day 2, project p1 with its dates, status
\* and stored progress drawn (PUT /api/projects/<id> stores any progress)
\* ---------------------------------------------------------------------
\* <<start_date, end_date>> of p1: on day 3 the elapsed/total days are 10/20,
\* 29/50 and 27/35; two spans with end_date <= start_date
Spans == {<<-7, 13>>, <<-26, 24>>, <<-24, 11>>, <<4, 4>>, <<4, 0>>}
StoredProgress == {0, 20, 54}
ProjectStatuses == {"active", "on-hold", "completed"}
DueDates == {0, 2, 3}

FindingTasks(due, status, priority) ==
    [t \in DOMAIN InsightTasks |->
        IF t \notin {"t1", "t2", "t3"} THEN InsightTasks[t]
        ELSE [InsightTasks[t] EXCEPT
                 !.end_date = IF t \in DOMAIN due THEN due[t] ELSE 2,
                 !.status = IF t = "t1" THEN status ELSE @,
                 !.progress = IF t = "t1" /\ status = "completed" THEN 100 ELSE @,
                 !.priority = IF t = "t1" THEN priority ELSE @]]

InitFindings ==
    /\ users = InitUsers
    /\ team_members = InitTeamMembers
    /\ \E due \in [{"t1", "t2"} -> DueDates],
          status \in {"todo", "completed"}, priority \in {"high", "medium"} :
         tasks = FindingTasks(due, status, priority)
    /\ \E span \in Spans, progress \in StoredProgress, status \in ProjectStatuses :
         projects = [p \in ProjectIds |->
                        IF p = "p1"
                        THEN [InitProjects[p] EXCEPT
                                 !.name = "P1", !.start_date = span[1],
                                 !.end_date = span[2], !.progress = progress,
                                 !.status = status]
                        ELSE [InitProjects[p] EXCEPT !.name = "P2"]]
    /\ share_links = <<>>
    /\ session = NULL
    /\ ops = 0
    /\ resp = NoResp
    /\ InitInvite
    /\ InitTask

NextFindings ==
    \/ ProjectSetProgress
    \/ Generate

SpecFindings == InitFindings /\ [][NextFindings]_vars

(***************************************************************************)
(* The write routes of routes/tasks.py and routes/projects.py, each behind *)
(* its decorator, with the service call of its handler.                    *)
(***************************************************************************)
NewProjectIds == {"p3"}

\* a write route answers r; its handler's writes (table, ptable) are
\* committed when it ran and answered 2xx
WriteRoute(endpoint, target, r, table, ptable) ==
    LET written == r.invoked /\ r.status < 400
        changed == written /\ (table # tasks \/ ptable # projects)
    IN  /\ tasks' = IF written THEN table ELSE tasks
        /\ projects' = IF written THEN ptable ELSE projects
        /\ Mutation(changed)
        /\ resp' = MkResp(endpoint, [NoParams EXCEPT !.target = target], r, changed)
        /\ UNCHANGED <<inviteVars, taskVars, users, team_members, share_links, session>>

\* POST /api/tasks: @require_permission(Permission.CREATE_TASKS); the body
\* names an existing project
CreateTask ==
    /\ CanRequest
    /\ \E id \in NewTaskIds \ DOMAIN tasks, status \in Field(TaskStatuses, NULL),
          project_id \in DOMAIN projects :
         LET d == require_permission("create_tasks", session)
             table == tasks @@ (id :> TaskService_create(status, Absent(0), NULL,
                                                         project_id))
         IN  WriteRoute("create_task", id,
                        IF d.invoked THEN Answer(d, 201, "Task created successfully")
                        ELSE d,
                        table, update_project_progress(project_id, table, projects))

\* a task route behind
\* @require_task_access(allow_assignee=True, allow_project_member=True):
\* the handler answers 404 when the service returns None
TaskAccessRoute(endpoint, task_id, task) ==
    LET d == require_task_access(TRUE, TRUE, session, task_id)
        found == task_id \in DOMAIN tasks
        table == IF found THEN [tasks EXCEPT ![task_id] = task] ELSE tasks
    IN  WriteRoute(endpoint, task_id,
                   IF ~d.invoked THEN d
                   ELSE IF ~found THEN Answer(d, 404, "Task not found")
                   ELSE Answer(d, 200, "Task updated"),
                   table,
                   IF found THEN update_project_progress(task.project_id, table, projects)
                   ELSE projects)

\* PUT|PATCH /api/tasks/<task_id>, with a body that carries one of status
\* and progress
UpdateTask ==
    /\ CanRequest
    /\ \E task_id \in TaskTargets, status \in Field(TaskStatuses, NULL),
          progress \in Field(ProgressInputs, 0) :
       /\ status.has # progress.has
       /\ TaskAccessRoute("update_task", task_id,
                         IF task_id \in DOMAIN tasks
                         THEN TaskService_update(tasks[task_id], status, progress,
                                                 Absent(NULL))
                         ELSE NoTask)

\* PATCH /api/tasks/<task_id>/status
UpdateTaskStatus ==
    /\ CanRequest
    /\ \E task_id \in TaskTargets, status \in TaskStatuses :
         TaskAccessRoute("update_task_status", task_id,
                         IF task_id \in DOMAIN tasks
                         THEN TaskService_update_status(tasks[task_id], status)
                         ELSE NoTask)

\* PATCH /api/tasks/<task_id>/progress
UpdateTaskProgress ==
    /\ CanRequest
    /\ \E task_id \in TaskTargets, progress \in ProgressInputs :
         TaskAccessRoute("update_task_progress", task_id,
                         IF task_id \in DOMAIN tasks
                         THEN TaskService_update_progress(tasks[task_id], progress)
                         ELSE NoTask)

\* a delete route that looks the target up before the permission
DeleteRoute_LookupFirst(permission, user_id, found) ==
    IF ~found THEN Deny(404, "Not found", <<>>)
    ELSE IF ~require_permission(permission, user_id).invoked
         THEN require_permission(permission, user_id)
         ELSE Answer(require_permission(permission, user_id), 200, "Deleted")

\* delete_task / delete_project: @require_permission(permission), then the
\* handler: 404 when the service returns False
DeleteRoute(permission, user_id, found) ==
    IF ~require_permission(permission, user_id).invoked
    THEN require_permission(permission, user_id)
    ELSE IF ~found
         THEN Answer(require_permission(permission, user_id), 404, "Not found")
         ELSE Answer(require_permission(permission, user_id), 200, "Deleted")

\* DELETE /api/tasks/<task_id>: @require_permission(Permission.DELETE_TASKS)
DeleteTask ==
    /\ CanRequest
    /\ \E task_id \in TaskTargets :
         LET found == task_id \in DOMAIN tasks
             table == [t \in DOMAIN tasks \ {task_id} |-> tasks[t]]
         IN  WriteRoute("delete_task", task_id,
                        DeleteRoute("delete_tasks", session, found), table,
                        IF found
                        THEN update_project_progress(tasks[task_id].project_id,
                                                     table, projects)
                        ELSE projects)

\* POST /api/projects: @require_permission(Permission.CREATE_PROJECTS); the
\* owner is the caller
CreateProject ==
    /\ CanRequest
    /\ \E id \in NewProjectIds \ DOMAIN projects :
         LET d == require_permission("create_projects", session)
         IN  WriteRoute("create_project", id,
                        IF d.invoked THEN Answer(d, 201, "Project created successfully")
                        ELSE d,
                        tasks,
                        projects @@ (id :> [owner_id |-> session, team_members |-> {},
                                            name |-> "n1", progress |-> 0,
                                            status |-> "planning", start_date |-> 0,
                                            end_date |-> 4]))

\* DELETE /api/projects/<project_id>:
\* @require_permission(Permission.DELETE_PROJECTS); the project's tasks are
\* deleted with it (cascade='all, delete-orphan')
DeleteProject ==
    /\ CanRequest
    /\ \E project_id \in ProjectTargets :
         WriteRoute("delete_project", project_id,
                    DeleteRoute("delete_projects", session,
                                project_id \in DOMAIN projects),
                    [t \in DOMAIN tasks \ TasksOf(project_id, tasks) |-> tasks[t]],
                    [q \in DOMAIN projects \ {project_id} |-> projects[q]])

\* an administrator makes a user a viewer or an administrator
GrantRoleAny ==
    \E u \in Users, role \in {VIEWER, ADMIN} : UserService_update_role(u, role)

NextWrite ==
    \/ LoginAny
    \/ GrantRoleAny
    \/ CreateTask
    \/ UpdateTask
    \/ UpdateTaskStatus
    \/ UpdateTaskProgress
    \/ DeleteTask
    \/ CreateProject
    \/ UpdateProject
    \/ DeleteProject
    \/ Respond

SpecWrite == Init /\ [][NextWrite]_vars

\* the department administrator routes, called by any logged-in user
NextDepartment ==
    \/ LoginAny
    \/ GrantRoleAny
    \/ AssignDepartmentAdmin
    \/ RemoveDepartmentAdmin
    \/ Respond

SpecDepartment == Init /\ [][NextDepartment]_vars

(***************************************************************************)
(* Registration: routes/auth.py register, services/user_service.py create. *)
(***************************************************************************)
RegisteredId == "u4"
RegisterEmails == {"taken@example.com", "fresh@example.com"}
RegisterPasswords == {"short", "password9"}
RegisterRoles == {ADMIN, " admin ", MANAGER, MEMBER, VIEWER}

\* sanitize_dict(data, USER_SCHEMA)['role']: sanitize_string strips the
\* surrounding whitespace and escapes HTML, which leaves a role name as it
\* is; the key is absent when the body has none
sanitize_role(role) ==
    IF role.has /\ role.value = " admin " THEN Given(ADMIN) ELSE role

\* UserService.create(data): role=sanitized.get('role', 'member')
UserService_create(password, role) ==
    [role |-> IF sanitize_role(role).has THEN sanitize_role(role).value ELSE MEMBER,
     department_id |-> NULL, is_active |-> TRUE, password |-> password]

\* UserService.get_by_email(data['email']): the fixture users have the taken
\* address, the registered user the fresh one
get_by_email(email) ==
    email = "taken@example.com" \/ RegisteredId \in DOMAIN users

\* POST /api/auth/register (public): 409 for a known email, 400 for a
\* password under 8 characters; else UserService.create(data) and tokens for
\* the new user, 201
Register ==
    /\ resp = NoResp
    /\ \E email \in RegisterEmails, password \in RegisterPasswords,
          role \in Field(RegisterRoles, NULL) :
         LET request == [NoResp EXCEPT !.endpoint = "register",
                                       !.params.arg = role.value]
             r == IF get_by_email(email)
                  THEN Answer(request, 409, "A user with this email already exists")
                  ELSE IF password = "short"
                  THEN Answer(request, 400, "Password must be at least 8 characters long")
                  ELSE Answer([request EXCEPT !.subject = RegisteredId, !.changed = TRUE],
                              201, "Registration successful")
         IN  /\ users' = IF r.status = 201
                         THEN [u \in DOMAIN users \cup {RegisteredId} |->
                                  IF u = RegisteredId
                                  THEN UserService_create(password, role)
                                  ELSE users[u]]
                         ELSE users
             /\ session' = IF r.status = 201 THEN RegisteredId ELSE session
             /\ resp' = r
    /\ UNCHANGED <<inviteVars, taskVars, team_members, projects, tasks, share_links, ops>>

NextRegister ==
    \/ LoginAny
    \/ Register
    \/ CallRequirePermission
    \/ CallRequireTaskAccess
    \/ Respond

SpecRegister == Init /\ [][NextRegister]_vars

(***************************************************************************)
(* Properties of the decorators (specification Spec).                      *)
(***************************************************************************)
Decorators ==
    {"require_auth", "require_role", "require_permission", "require_project_access",
     "require_task_access", "require_department_access", "require_self_or_admin"}

\* the roles ranked manager or above
ManagerOrAbove == {MANAGER, DEPARTMENT_ADMIN, ADMIN}

\* the role an access check sees for a stored role value
EffectiveRole(stored) == IF stored = NULL THEN MEMBER ELSE stored

\* C1: under every decorator, for every role, flag setting and target
\* (existing or missing), a request whose token subject is an inactive user
\* is answered 403 'account deactivated' and the handler is not invoked.
C1_InactiveOverridesEverything ==
    (resp.endpoint \in Decorators /\ ~resp.subj_active)
        => /\ resp.status = 403
           /\ resp.msg = "User account is deactivated"
           /\ ~resp.invoked

\* an inactive admin asked for a project that does not exist
C1_Witness ==
    /\ resp.endpoint = "require_project_access"
    /\ ~resp.subj_active
    /\ resp.subj_role = ADMIN
    /\ resp.params.target = MissingProject
    /\ resp.status = 403

\* C4: for an active principal and an existing project, require_project_access
\* allows exactly when admin, or allow_manager and manager-or-above, or
\* allow_owner and owner, or allow_member and member; otherwise 403; and a
\* match makes no later relationship lookup.
C4_ProjectAccessVerdict ==
    (/\ resp.endpoint = "require_project_access"
     /\ resp.subj_active
     /\ resp.params.target \in DOMAIN projects)
        => LET u == resp.subject
               p == projects[resp.params.target]
               role == EffectiveRole(resp.subj_role)
               byRole == role = ADMIN \/ (resp.params.f3 /\ role \in ManagerOrAbove)
               byOwner == resp.params.f1 /\ p.owner_id = u
               byMember ==
                   resp.params.f2
                     /\ \E m \in p.team_members : team_members[m].user_id = u
           IN  /\ resp.invoked <=> (byRole \/ byOwner \/ byMember)
               /\ ~resp.invoked => resp.status = 403
               /\ byRole => resp.lookups = <<>>
               /\ (~byRole /\ byOwner) => resp.lookups = <<"is_project_owner">>
               /\ (~byRole /\ ~byOwner /\ byMember) =>
                     resp.lookups[Len(resp.lookups)] = "is_project_member"

\* the owner, who is also a member, is let in by the owner test alone
C4_Witness ==
    /\ resp.endpoint = "require_project_access"
    /\ resp.subj_active
    /\ resp.params.target \in DOMAIN projects
    /\ resp.params.f1 /\ resp.params.f2 /\ ~resp.params.f3
    /\ projects[resp.params.target].owner_id = resp.subject
    /\ \E m \in projects[resp.params.target].team_members :
          team_members[m].user_id = resp.subject
    /\ resp.subj_role = MANAGER
    /\ resp.invoked
    /\ resp.lookups = <<"is_project_owner">>

\* C5: under every decorator the handler is invoked only on allow, never on
\* a deny; when it is invoked g.current_user is the live user whose id is the
\* token subject, that user is active, and (require_permission,
\* require_task_access) the policy's condition holds.
C5_HandlerOnlyOnAllow ==
    resp.endpoint \in Decorators
        => /\ resp.status # 200 => ~resp.invoked
           /\ resp.invoked =>
                /\ resp.status = 200
                /\ resp.subject \in DOMAIN users
                /\ resp.g = resp.subject
                /\ users[resp.g].is_active
                /\ resp.endpoint = "require_permission" =>
                     /\ EffectiveRole(resp.subj_role) \in Role
                     /\ resp.params.arg \in ROLE_PERMISSIONS[EffectiveRole(resp.subj_role)]
                /\ resp.endpoint = "require_task_access" =>
                     /\ resp.params.target \in DOMAIN tasks
                     /\ \/ EffectiveRole(resp.subj_role) \in ManagerOrAbove
                        \/ /\ resp.params.f1
                           /\ \E m \in DOMAIN team_members :
                                /\ team_members[m].user_id = resp.subject
                                /\ tasks[resp.params.target].assignee_id = m
                        \/ /\ resp.params.f2
                           /\ \E m \in projects[tasks[resp.params.target].project_id].team_members :
                                team_members[m].user_id = resp.subject

\* a project member who is not the assignee reaches the task handler
C5_Witness ==
    /\ resp.endpoint = "require_task_access"
    /\ resp.invoked
    /\ resp.g = resp.subject
    /\ EffectiveRole(resp.subj_role) \notin ManagerOrAbove
    /\ resp.lookups = <<"is_task_assignee", "is_project_member">>

(***************************************************************************)
(* Properties of the routes (specification SpecApi).                       *)
(***************************************************************************)
\* the department that owns a project: the department of its owner
OwningDepartment(project_id) == users[projects[project_id].owner_id].department_id

SubjectDepartment == users[resp.subject].department_id

\* C2: a department_admin of D1 who GETs a project whose owner is in another
\* department is answered 403 access-denied (not 404); for a project whose
\* owner is in D1 the same principal is allowed; an admin is allowed for any
\* project.
C2_CrossDepartmentRead ==
    (/\ resp.endpoint = "get_project"
     /\ resp.subj_active
     /\ resp.params.target \in DOMAIN projects)
        => /\ (/\ EffectiveRole(resp.subj_role) = DEPARTMENT_ADMIN
               /\ OwningDepartment(resp.params.target) # SubjectDepartment)
                  => /\ resp.status = 403
                     /\ resp.msg = "Access denied to this project"
           /\ (/\ EffectiveRole(resp.subj_role) = DEPARTMENT_ADMIN
               /\ OwningDepartment(resp.params.target) = SubjectDepartment)
                  => resp.status = 200
           /\ EffectiveRole(resp.subj_role) = ADMIN => resp.status = 200

\* a department_admin of d1 is refused a project owned in d2, and one is
\* served a project of a colleague in its own department
C2_Witness ==
    /\ resp.endpoint = "get_project"
    /\ resp.subj_active
    /\ resp.subj_role = DEPARTMENT_ADMIN
    /\ resp.params.target \in DOMAIN projects
    /\ OwningDepartment(resp.params.target) # SubjectDepartment
    /\ resp.status = 403

ProjectWrites ==
    {"update_project", "add_project_member", "remove_project_member",
     "create_share_link"}

\* C3: every update, member add/remove or share-link creation that a
\* department_admin requests on a project whose owning department differs
\* from its own is denied and changes no state.
C3_NoCrossDepartmentWrite ==
    (/\ resp.endpoint \in ProjectWrites
     /\ resp.subj_active
     /\ EffectiveRole(resp.subj_role) = DEPARTMENT_ADMIN
     /\ resp.params.target \in DOMAIN projects
     /\ OwningDepartment(resp.params.target) # SubjectDepartment)
        => /\ resp.status = 403
           /\ ~resp.invoked
           /\ ~resp.changed

AuthenticatedEndpoints ==
    ProjectWrites \cup {"get_project", "auth_me", "auth_refresh", "auth_verify",
                        "change_password"}

\* C6: once a user is deactivated, every request with a token issued to that
\* user before is denied on every authenticated endpoint, /api/auth/me,
\* /refresh, /verify and /change-password included, and changes nothing.
C6_DeactivatedTokenDenied ==
    (resp.endpoint \in AuthenticatedEndpoints /\ ~resp.subj_active)
        => /\ resp.status = 403
           /\ ~resp.changed

(***************************************************************************)
(* Properties of the invitations (specification SpecInvite).               *)
(***************************************************************************)
\* the users rows with the invited address
InvitedUsers(i) == {r \in accounts : r.email = invites[i].email}

\* both workers have answered one accept call on the token of invite i, each
\* with a password to use, nobody held the address before, and the invite
\* was neither revoked nor past its expiry while they ran
BothAccepted(i) ==
    /\ \A w \in Workers :
          /\ acc[w].pc = "idle" /\ acc[w].n = 1 /\ acc[w].token = i
          /\ acc[w].at # "password"
    /\ \A r \in accounts : r.id \in {NewUserId(w) : w \in Workers}
    /\ \A m \in member_profiles : m.user_id \in {NewUserId(w) : w \in Workers}
    /\ invites[i].revoked_at = NoTime
    /\ ~(now > invites[i].expires_at)

\* the statuses of an already-used / invalid / conflict answer
ConflictStatuses == {400, 404, 409}

\* C7: of two accept calls on the same valid invite token, however their
\* reads and commits interleave, exactly one answers 201 and the other
\* answers an already-used/invalid (conflict) error, and exactly one User
\* row has the invite's email afterwards.
C7_ExactlyOneAcceptSucceeds ==
    \A i \in InviteIds :
        BothAccepted(i) =>
            /\ \E w \in Workers :
                  /\ acc[w].status = 201
                  /\ \A v \in Workers \ {w} : acc[v].status \in ConflictStatuses
            /\ Cardinality(InvitedUsers(i)) = 1

\* the rows a successful accept commits, seen from worker w
AcceptedRows(w) ==
    /\ NewUserId(w) \in {r.id : r \in accounts}
    /\ NewUserId(w) \in user_settings
    /\ NewUserId(w) \in {m.user_id : m \in member_profiles}

NoAcceptedRows(w) ==
    /\ NewUserId(w) \notin {r.id : r \in accounts}
    /\ NewUserId(w) \notin user_settings
    /\ NewUserId(w) \notin {m.user_id : m \in member_profiles}

AcceptTablesChange ==
    \/ accounts' # accounts
    \/ user_settings' # user_settings
    \/ member_profiles' # member_profiles
    \/ \E i \in InviteIds : invites'[i].used_at # invites[i].used_at

\* one commit writes the User, its UserSettings, its TeamMember and used_at
CommitsTogether(w) ==
    LET user == [id |-> acc[w].pending, email |-> acc[w].seen.email]
    IN  /\ acc[w].pc = "commit"
        /\ acc'[w].status = 201
        /\ user \notin accounts
        /\ accounts' = accounts \cup {user}
        /\ user_settings' = user_settings \cup {user.id}
        /\ member_profiles' =
              member_profiles \cup {[user_id |-> user.id, email |-> user.email]}
        /\ invites'[acc[w].token].used_at = now

\* C8: InviteService.accept is all-or-nothing: the committed tables change
\* only in one step that adds the User, its UserSettings, its TeamMember and
\* sets used_at together; a call that ends in an error changes none of them;
\* and at all times a worker's new rows are all there or all absent, and the
\* invite is used exactly if some worker's rows are there.
C8_AcceptAllOrNothing ==
    [][ /\ AcceptTablesChange => \E w \in Workers : CommitsTogether(w)
        /\ \A w \in Workers :
              (acc'[w] # acc[w] /\ acc'[w].status \notin {0, 201})
                  => ~AcceptTablesChange
        /\ \A w \in Workers : AcceptedRows(w) \/ NoAcceptedRows(w)
        /\ \A i \in InviteIds :
              (invites[i].used_at # NoTime) <=> (\E w \in Workers : AcceptedRows(w))
      ]_vars

\* a call got as far as the commit, the commit failed, and nothing is left
C8_Witness ==
    \E w \in Workers :
        /\ acc[w].at = "commit" /\ acc[w].status = 500
        /\ NoAcceptedRows(w)
        /\ invites[acc[w].token].used_at = NoTime

\* C9: once used_at or revoked_at of an invite is set, no later accept or
\* revoke changes used_at or revoked_at.
C9_UsedRevokedImmutable ==
    [][ \A i \in InviteIds :
            (invites[i].used_at # NoTime \/ invites[i].revoked_at # NoTime)
                => /\ invites'[i].used_at = invites[i].used_at
                   /\ invites'[i].revoked_at = invites[i].revoked_at
      ]_vars

\* validity as a relation of the clock to the three columns; strict says
\* whether the instant expires_at itself is already too late
ValidFields(invite, t, strict) ==
    /\ IF strict THEN t < invite.expires_at ELSE t <= invite.expires_at
    /\ invite.used_at = NoTime
    /\ invite.revoked_at = NoTime

\* get_valid_by_token, the validate endpoint and both validity tests of an
\* accept call answer "usable" exactly when ValidFields says so
UsableExactlyWhen(strict) ==
    /\ \A token \in AcceptTokens :
          (get_valid_by_token(token, now) # NULL)
              <=> (token \in DOMAIN invites /\ ValidFields(invites[token], now, strict))
    /\ (validated = NoValidated /\ validated' # NoValidated) =>
          ((validated'.status = 200)
              <=> /\ validated'.token \in DOMAIN invites
                  /\ ValidFields(invites[validated'.token], now, strict))
    /\ \A w \in Workers :
          /\ (acc[w].pc = "idle" /\ acc'[w].n = acc[w].n + 1) =>
                ((acc'[w].pc = "service")
                    <=> /\ acc'[w].token \in DOMAIN invites
                        /\ ValidFields(invites[acc'[w].token], now, strict))
          /\ (acc[w].pc = "service" /\ acc'[w].pc # "service") =>
                ((acc'[w].at # "invalid") <=> ValidFields(acc[w].seen, now, strict))

\* C10 as stated: an invite is usable exactly when now < expires_at and
\* used_at and revoked_at are null.
C10_ValidBeforeExpiry == [][UsableExactlyWhen(TRUE)]_vars

\* C10 as the code has it: an invite is usable exactly when now <= expires_at
\* (it expires only once now > expires_at) and used_at and revoked_at are null.
C10_ValidThroughExpiry == [][UsableExactlyWhen(FALSE)]_vars

\* the validate endpoint answered 200 at the very instant expires_at
C10_Witness ==
    /\ validated.status = 200
    /\ validated.token \in DOMAIN invites
    /\ validated.now = invites[validated.token].expires_at

(***************************************************************************)
(* Properties of tasks and project progress (specification SpecTask).      *)
(***************************************************************************)
\* C11: after any sequence of TaskService.create, update, update_status and
\* update_progress calls with validated inputs, every task has
\* status = completed exactly if progress = 100.
C11_CompletedIffFull ==
    \A t \in DOMAIN tasks :
        (tasks[t].status = "completed") <=> (tasks[t].progress = 100)

\* the task the last call was made on, as it is now
Called == tasks[tcall.id]

\* C12: update_progress(t, 100) leaves status completed; update_status(t,
\* 'completed') leaves progress 100; update_status(t, 'todo') on a task with
\* progress 100 leaves progress 0; update_progress(t, 0) on a completed task
\* leaves status todo.
C12_QuickUpdatesCouple ==
    /\ (tcall.op = "update_progress" /\ tcall.progress.value = 100)
          => Called.status = "completed"
    /\ (tcall.op = "update_status" /\ tcall.status.value = "completed")
          => Called.progress = 100
    /\ (tcall.op = "update_status" /\ tcall.status.value = "todo"
            /\ tcall.before.progress = 100)
          => Called.progress = 0
    /\ (tcall.op = "update_progress" /\ tcall.progress.value = 0
            /\ tcall.before.status = "completed")
          => Called.status = "todo"

\* update_status(t, 'todo') was called on a task with progress 100
C12_Witness ==
    /\ tcall.op = "update_status" /\ tcall.status.value = "todo"
    /\ tcall.before.progress = 100
    /\ tcall.before.status # "todo"
    /\ Called.progress = 0 /\ Called.status = "todo"

\* C13: every project that has at least one task has progress equal to the
\* floor of the mean of its tasks' progress; no operation sets it directly
\* once the project has tasks.
C13_ProgressIsDerived ==
    \A p \in DOMAIN projects :
        TasksOf(p, tasks) # {} =>
            projects[p].progress =
                SumProgress(TasksOf(p, tasks), tasks) \div Cardinality(TasksOf(p, tasks))

(***************************************************************************)
(* Properties of roles and permissions (specification Spec).               *)
(***************************************************************************)
\* the ranking the role ordering is stated under; a string that is no role
\* has rank 0
Rank(role) ==
    CASE role = VIEWER -> 0
      [] role = MEMBER -> 1
      [] role = MANAGER -> 2
      [] role = DEPARTMENT_ADMIN -> 3
      [] role = ADMIN -> 4
      [] OTHER -> 0

\* C14: has_role(actual, required) is true exactly when rank(actual) >=
\* rank(required) under viewer 0 < member 1 < manager 2 < department_admin 3
\* < admin 4; an unknown actual role counts as rank 0 and the check answers
\* 200 or 403, never an error.
C14_RoleOrdering ==
    /\ \A r1 \in Role, r2 \in Role :
          Rank(r1) < Rank(r2) => ~has_role(r1, r2) /\ has_role(r2, r1)
    /\ \A actual \in RoleValues \ {NULL}, required \in Role :
          has_role(actual, required) <=> Rank(actual) >= Rank(required)
    /\ (resp.endpoint = "require_role" /\ resp.subj_active) =>
          /\ resp.invoked <=>
                Rank(EffectiveRole(resp.subj_role)) >= Rank(resp.params.arg)
          /\ resp.status = IF resp.invoked THEN 200 ELSE 403

\* a user whose role is no known role was checked against member and denied
C14_Witness ==
    /\ resp.endpoint = "require_role" /\ resp.subj_active
    /\ resp.subj_role = "guest"
    /\ resp.params.arg = MEMBER
    /\ resp.status = 403 /\ ~resp.invoked

\* the permissions of user, department and role administration
AdminOnlyPermissions == {"manage_users", "manage_departments", "manage_roles"}

\* C15: a department_admin fails every permission check for manage_users,
\* manage_departments and manage_roles, although it passes the role check
\* for manager; the permission check reads the role's row of the table.
C15_DepartmentAdminAsymmetry ==
    /\ has_role(DEPARTMENT_ADMIN, MANAGER)
    /\ (resp.endpoint = "require_permission" /\ resp.subj_active
            /\ resp.subj_role = DEPARTMENT_ADMIN
            /\ resp.params.arg \in AdminOnlyPermissions)
          => resp.status = 403 /\ ~resp.invoked
    /\ (resp.endpoint = "require_role" /\ resp.subj_active
            /\ resp.subj_role = DEPARTMENT_ADMIN /\ resp.params.arg = MANAGER)
          => resp.invoked
    /\ (resp.endpoint = "require_permission" /\ resp.subj_active)
          => (resp.invoked <=>
                /\ EffectiveRole(resp.subj_role) \in Role
                /\ resp.params.arg \in ROLE_PERMISSIONS[EffectiveRole(resp.subj_role)])

\* a department_admin asked for manage_users and was denied
C15_Witness ==
    /\ resp.endpoint = "require_permission" /\ resp.subj_active
    /\ resp.subj_role = DEPARTMENT_ADMIN
    /\ resp.params.arg = "manage_users"
    /\ resp.status = 403 /\ ~resp.invoked

(***************************************************************************)
(* Properties of the write routes (specification SpecWrite).               *)
(***************************************************************************)
\* the requests that create, change or delete a project or a task
MutatingEndpoints ==
    {"create_project", "update_project", "delete_project", "create_task",
     "update_task", "delete_task", "update_task_status", "update_task_progress"}

\* C16: every mutating request on projects or tasks made by an active viewer
\* is answered 403 and changes nothing, whatever the viewer owns, is a member
\* of or is assigned to.
C16_ViewerReadOnly ==
    (resp.endpoint \in MutatingEndpoints /\ resp.subj_active
        /\ resp.subj_role = VIEWER)
      => resp.status = 403 /\ ~resp.changed /\ ~resp.invoked

\* the permission each permission-gated delete asks for
DeletePermission ==
    [e \in {"delete_task", "delete_project"} |->
        IF e = "delete_task" THEN "delete_tasks" ELSE "delete_projects"]

\* whether the subject of the response holds permission
SubjectMay(permission) ==
    has_permission(EffectiveRole(resp.subj_role), permission)

\* C17: on DELETE task and DELETE project an active principal without the
\* permission gets the one 403 'Permission denied' answer whether the target
\* exists or not, and nothing changes; 404 is answered only to a principal
\* that holds the permission.
C17_DenialHidesExistence ==
    (resp.endpoint \in DOMAIN DeletePermission /\ resp.subj_active) =>
        /\ ~SubjectMay(DeletePermission[resp.endpoint]) =>
              /\ resp.status = 403 /\ resp.msg = "Permission denied"
              /\ ~resp.invoked /\ ~resp.changed
        /\ resp.status = 404 => SubjectMay(DeletePermission[resp.endpoint])

\* DELETE of a project that does not exist, by a manager (who lacks
\* delete_projects), was answered 403
C17_Witness ==
    /\ resp.endpoint = "delete_project" /\ resp.subj_active
    /\ resp.subj_role = MANAGER
    /\ resp.params.target = MissingProject
    /\ resp.status = 403

C19_ResaveKeepsInsights ==
    [][tcall'.op = "resave" =>
          \A today \in TodayInputs :
              Insights(tasks', projects', team_members', today)
                = Insights(tasks, projects, team_members, today)]_vars

\* the types in priority order, and the icons of the findings in the order
\* generate produces them
TypeOrder == <<"critical", "warning", "positive", "info">>
IconOrder ==
    <<"AlertTriangle", "FolderClock", "UserX", "Clock", "UserCog", "TrendingDown",
      "CheckCircle2", "TrendingUp", "Trophy", "BarChart3", "Info">>
PlaceIn(order, x) == CHOOSE k \in 1..Len(order) : order[k] = x

\* C20: the list generate returns is ordered critical, warning, positive,
\* info, and within a type in generation order: overdue tasks, overdue
\* projects, unassigned high priority; due soon, overloaded members, behind
\* schedule; recently completed, on-track projects, top performer; summary.
C20_OrderedByCategory ==
    \A i \in 1..Len(insights.last), j \in 1..Len(insights.last) :
        i < j =>
            /\ PlaceIn(TypeOrder, insights.last[i].type)
                 <= PlaceIn(TypeOrder, insights.last[j].type)
            /\ PlaceIn(IconOrder, insights.last[i].icon)
                 <= PlaceIn(IconOrder, insights.last[j].icon)
            /\ (PlaceIn(IconOrder, insights.last[i].icon) - 1) \div 3
                 = PlaceIn(TypeOrder, insights.last[i].type) - 1

\* a list with findings of all four types, an overloaded member among them
C20_Witness ==
    /\ \A type \in {"critical", "warning", "positive", "info"} :
          \E i \in 1..Len(insights.last) : insights.last[i].type = type
    /\ \E i \in 1..Len(insights.last) : insights.last[i].icon = "UserCog"
    /\ Len(insights.last) >= 8

\* ---------------------------------------------------------------------
\* C21, C22: the overdue-task finding and the behind-schedule finding
\* ---------------------------------------------------------------------
FindingsOf(icon) == SelectSeq(insights.last, LAMBDA f : f.icon = icon)

OverdueTasks ==
    {t \in DOMAIN tasks : tasks[t].end_date < insights.today /\ tasks[t].status # "completed"}

\* the place of a row in the order the rows are read in
RowPlace(id) == CHOOSE k \in 1..Len(RowOrder) : RowOrder[k] = id

\* the first, in task order, of the overdue tasks that are the most days late
FirstMostOverdue ==
    CHOOSE t \in OverdueTasks :
       \A o \in OverdueTasks :
          \/ tasks[o].end_date > tasks[t].end_date
          \/ tasks[o].end_date = tasks[t].end_date /\ RowPlace(t) <= RowPlace(o)

ExactExpected(p) ==
    LET total == p.end_date - p.start_date
        elapsed == insights.today - p.start_date
    IN  IF elapsed < total THEN elapsed * 100 ELSE 100 * total

\* behind schedule as stated: not completed or on hold, start before end,
\* elapsed > 0, expected > 30 and progress < 0.7 * expected
StatedBehind(p) ==
    /\ p.status \notin {"completed", "on-hold"}
    /\ p.start_date < p.end_date
    /\ insights.today - p.start_date > 0
    /\ ExactExpected(p) > 30 * (p.end_date - p.start_date)
    /\ 10 * p.progress * (p.end_date - p.start_date) < 7 * ExactExpected(p)

BehindFindings(p) ==
    SelectSeq(insights.last, LAMBDA f : f.icon = "TrendingDown" /\ f.names = <<p.name>>)

OnTrackNames ==
    IF FindingsOf("TrendingUp") = <<>> THEN {}
    ELSE {FindingsOf("TrendingUp")[1].names[k] :
             k \in 1..Len(FindingsOf("TrendingUp")[1].names)}

\* C22: a report has a behind-schedule warning for a project exactly when
\* the project is neither completed nor on hold, starts before it ends, has
\* elapsed days > 0, expected = min(elapsed / total * 100, 100) > 30 and
\* progress < 0.7 * expected; the warning gives the integer part of
\* expected - progress; a project with end_date <= start_date has neither a
\* behind-schedule nor an on-track finding.
C22_BehindSchedule ==
    insights.calls > 0 =>
       \A id \in DOMAIN projects :
          LET p == projects[id]
          IN  /\ Len(BehindFindings(p)) = (IF StatedBehind(p) THEN 1 ELSE 0)
              /\ StatedBehind(p) =>
                    BehindFindings(p)[1].nums[3] =
                       (ExactExpected(p) - p.progress * (p.end_date - p.start_date))
                          \div (p.end_date - p.start_date)
              /\ p.end_date <= p.start_date =>
                    BehindFindings(p) = <<>> /\ p.name \notin OnTrackNames

\* the stated example: start 10 days ago, end in 10 days, progress 20, a
\* warning with the difference 30
C22_Example ==
    /\ insights.calls > 0
    /\ insights.today = 3
    /\ projects["p1"].start_date = -7 /\ projects["p1"].end_date = 13
    /\ projects["p1"].progress = 20 /\ projects["p1"].status = "active"
    /\ Len(BehindFindings(projects["p1"])) = 1
    /\ BehindFindings(projects["p1"])[1].nums = <<20, 50, 30>>
\* ---------------------------------------------------------------------
\* C23: accepting an expired invite
\* ---------------------------------------------------------------------
\* worker w receives an accept request for an existing invite that is past
\* its expires_at
ExpiredAcceptArrives(w) ==
    /\ acc'[w].n = acc[w].n + 1
    /\ acc'[w].token \in DOMAIN invites
    /\ now > invites[acc'[w].token].expires_at

\* C23: a request to accept an expired invite is answered with status 400
\* and creates no User row for the invite's email.
C23_ExpiredAcceptRejected ==
    [][\A w \in Workers :
          ExpiredAcceptArrives(w) =>
             /\ acc'[w].pc = "idle"
             /\ acc'[w].status = 400
             /\ invites[acc'[w].token].email \in Emails(accounts')
                   => invites[acc'[w].token].email \in Emails(accounts)]_vars
\* ---------------------------------------------------------------------
\* C24: public access through a share link
\* ---------------------------------------------------------------------
\* C24: public access with the token of a link that was revoked, or after the
\* link's expires_at, is answered 404 with no project data; with the token of
\* a link neither revoked nor expired it returns the project; a revoked link
\* never becomes usable again.
C24_ShareLinkAccess ==
    [][\A k \in 1..Len(share_links) :
          /\ (resp'.endpoint = "get_shared_project"
                /\ resp'.params.target = share_links[k].id) =>
                IF share_links[k].revoked_at # NoTime \/ now > share_links[k].expires_at
                THEN resp'.status = 404 /\ resp'.params.arg = NULL
                ELSE /\ resp'.status = 200
                     /\ resp'.params.arg = share_links[k].project_id
          /\ (resp'.endpoint = "revoke_share_link"
                /\ resp'.params.target = share_links[k].id
                /\ resp'.subj_active
                /\ (share_links[k].created_by = resp'.subject
                      \/ resp'.subj_role = ADMIN)) =>
                resp'.status = 200 /\ share_links'[k].revoked_at # NoTime
          /\ share_links[k].revoked_at # NoTime =>
                Len(share_links') >= k /\ share_links'[k].revoked_at # NoTime]_vars
\* ---------------------------------------------------------------------
\* C25: one department per administrator
\* ---------------------------------------------------------------------
AdministeredBy(table, u) == {d \in DOMAIN table : table[d].admin_id = u}

\* C25: after any sequence of assign and remove operations no user is the
\* admin_id of more than one department; a request, let through by the
\* permission test, to assign to a department a user who administers a
\* different department is answered 409 and changes neither a department nor
\* the user's role.
C25_OneDepartmentPerAdmin ==
    [][/\ \A u \in Users : Cardinality(AdministeredBy(departments', u)) <= 1
       /\ (/\ resp'.endpoint = "assign_department_admin"
            /\ resp'.invoked
            /\ resp'.params.target \in DOMAIN departments
            /\ AdministeredBy(departments, resp'.params.arg)
                  \ {resp'.params.target} # {}) =>
              /\ resp'.status = 409
              /\ departments' = departments
              /\ users' = users]_vars

\* u1 administers d1 and the request to make u1 administrator of d2 was
\* answered 409
C25_Witness ==
    /\ departments["d1"].admin_id = "u1"
    /\ departments["d2"].admin_id = NULL
    /\ users["u1"].role = DEPARTMENT_ADMIN
    /\ resp.endpoint = "assign_department_admin"
    /\ resp.params.target = "d2" /\ resp.params.arg = "u1"
    /\ resp.status = 409
\* ---------------------------------------------------------------------
\* C26: the permissions of admin
\* ---------------------------------------------------------------------
\* C26: has_permission('admin', p) holds for every p of the Permission enum:
\* a route guarded by require_permission(p), whatever p, lets an active
\* admin through.
C26_AdminHasEveryPermission ==
    (/\ resp.endpoint = "require_permission"
     /\ resp.subj_active
     /\ resp.subj_role = ADMIN) =>
       /\ resp.params.arg \in Permission
       /\ has_permission(ADMIN, resp.params.arg)
       /\ resp.invoked
\* ---------------------------------------------------------------------
\* C27: the verdict of require_task_access
\* ---------------------------------------------------------------------
\* the team members linked to the user
LinkedMembers(u) == {m \in DOMAIN team_members : team_members[m].user_id = u}

\* C27: for an active principal and an existing task,
\* require_task_access(allow_assignee, allow_project_member) allows exactly
\* when the role ranks at least manager, or allow_assignee and the linked team
\* member is the task's assignee, or allow_project_member and the linked team
\* member is a member of the task's project; otherwise 403.  A missing task
\* is answered 404, after the deactivated test (a deactivated principal gets
\* 403 for it) and before any role or relationship test.
C27_TaskAccessVerdict ==
    resp.endpoint = "require_task_access" =>
       LET t == resp.params.target
           u == resp.subject
       IN  IF ~resp.subj_active
           THEN resp.status = 403 /\ ~resp.invoked /\ resp.lookups = <<>>
           ELSE IF t \notin DOMAIN tasks
           THEN resp.status = 404 /\ ~resp.invoked /\ resp.lookups = <<>>
           ELSE /\ resp.invoked <=>
                     \/ Rank(resp.subj_role) >= Rank(MANAGER)
                     \/ resp.params.f1 /\ tasks[t].assignee_id \in LinkedMembers(u)
                     \/ /\ resp.params.f2
                        /\ LinkedMembers(u) \cap
                              projects[tasks[t].project_id].team_members # {}
                /\ ~resp.invoked => resp.status = 403

\* a member, not a manager, let through as the assignee alone, and refused
\* once allow_assignee is off
C27_Witness ==
    /\ resp.endpoint = "require_task_access"
    /\ resp.subj_active
    /\ resp.subj_role = MEMBER
    /\ resp.params.target \in DOMAIN tasks
    /\ resp.params.f1 /\ ~resp.params.f2
    /\ tasks[resp.params.target].assignee_id \in LinkedMembers(resp.subject)
    /\ resp.invoked
\* ---------------------------------------------------------------------
\* C28: a blacklisted jti is reported until its entry expires
\* ---------------------------------------------------------------------
\* the times the entries added for jti expire at
EntryExpiries(jti) ==
    {token_blacklist.redis[jti], token_blacklist.memory[jti]} \ {NoTime}

\* C28: a jti added by TokenBlacklist.add(jti, ttl) is reported blacklisted
\* by every is_blacklisted(jti) made before the entry's expiry, whether Redis
\* succeeded or failed at the add and at the check; after the expiry it is
\* reported not blacklisted.
C28_BlacklistedUntilExpiry ==
    [][token_blacklist'.checked.n = token_blacklist.checked.n + 1 =>
          LET jti == token_blacklist'.checked.jti
          IN  /\ (\E e \in EntryExpiries(jti) : now < e)
                    => token_blacklist'.checked.result
              /\ (\A e \in EntryExpiries(jti) : now > e)
                    => ~token_blacklist'.checked.result]_vars
\* ---------------------------------------------------------------------
\* C29: moving a task between projects
\* ---------------------------------------------------------------------
\* the sum of the progress of the tasks of a set
TotalProgress(table, ids) ==
    LET RECURSIVE Sum(_)
        Sum(rest) == IF rest = {} THEN 0
                     ELSE LET t == CHOOSE x \in rest : TRUE
                          IN  table[t].progress + Sum(rest \ {t})
    IN  Sum(ids)

\* p is the floor of the mean progress of the tasks of project pid, 0 when
\* it has none
IsFloorMean(p, pid, table) ==
    LET ids == {t \in DOMAIN table : table[t].project_id = pid}
        n == Cardinality(ids)
    IN  IF n = 0 THEN p = 0
        ELSE p * n <= TotalProgress(table, ids) /\ TotalProgress(table, ids) < (p + 1) * n

\* C29: when TaskService.update changes a task's projectId from A to B, then
\* afterwards both A and B have progress equal to the floor of the mean
\* progress of the tasks they now contain (0 if none).
C29_MoveRecomputesBoth ==
    [][\A id \in DOMAIN tasks \cap DOMAIN tasks' :
          tasks'[id].project_id # tasks[id].project_id =>
             /\ IsFloorMean(projects'[tasks[id].project_id].progress,
                            tasks[id].project_id, tasks')
             /\ IsFloorMean(projects'[tasks'[id].project_id].progress,
                            tasks'[id].project_id, tasks')]_vars
\* ---------------------------------------------------------------------
\* C30: the role of a self-registered user
\* ---------------------------------------------------------------------
\* C30: a user created through the public POST /api/auth/register has the
\* role member, whatever the request body contains.
C30_RegisteredAsMember ==
    [][\A u \in DOMAIN users' \ DOMAIN users :
          resp'.endpoint = "register" => users'[u].role = MEMBER]_vars
====
